---- MODULE Spec2Model ----
(***************************************************************************)
(* University sports backend: the list-query builder (utils/queryUtils)    *)
(* and the list handlers that hand its descriptor to the Prisma client.    *)
(*                                                                         *)
(* Strings are sequences of one-character strings, so that parseInt,       *)
(* Number.prototype.toString and the case-insensitive substring match are  *)
(* computed character by character.  A JavaScript value is a record        *)
(* [kind, n, s]: kind "undefined", "null", "num" (n), "nan", "str" (s).    *)
(***************************************************************************)
EXTENDS Integers, Sequences, FiniteSets, TLC

(* ---------------------------- bounds ----------------------------------- *)
\* longest page string drawn for a request
MaxPageLen == 2
\* longest limit string drawn for a request
MaxLimitLen == 3
\* number-typed page and limit inputs range over -MaxInt..MaxInt
MaxInt == 3
\* longest searchFields list drawn for a direct call of the builder
MaxFields == 2
\* rows the handlers may create per table
MaxUniversities == 2
MaxSports == 2
MaxFixtures == 2
MaxUsers == 2
\* how many calls of buildQueryOptions a run of the builder makes
MaxCalls == 3
\* how many requests on /api/results are in progress at once
MaxSlots == 2
\* how many sockets ever connect to io
MaxSockets == 2
\* how many requests on /api/results a run accepts
MaxRequests == 2

(* ------------------------ JavaScript values ---------------------------- *)
JsUndefined == [kind |-> "undefined", n |-> 0, s |-> <<>>]
JsNull == [kind |-> "null", n |-> 0, s |-> <<>>]
NaN == [kind |-> "nan", n |-> 0, s |-> <<>>]
JsNum(i) == [kind |-> "num", n |-> i, s |-> <<>>]
JsStr(cs) == [kind |-> "str", n |-> 0, s |-> cs]

\* ToBoolean: undefined, null, NaN, 0 and "" are falsy
Truthy(v) ==
  CASE v.kind = "num" -> v.n # 0
    [] v.kind = "str" -> v.s # <<>>
    [] OTHER -> FALSE

\* a || b
JsOr(a, b) == IF Truthy(a) THEN a ELSE b

\* a - b and a * b on numbers, NaN propagating
JsSub(a, b) == IF a.kind = "num" /\ b.kind = "num" THEN JsNum(a.n - b.n) ELSE NaN
JsMul(a, b) == IF a.kind = "num" /\ b.kind = "num" THEN JsNum(a.n * b.n) ELSE NaN

DigitChars == <<"0", "1", "2", "3", "4", "5", "6", "7", "8", "9">>
IsDigit(c) == \E i \in 1..10 : DigitChars[i] = c
DigitVal(c) == (CHOOSE i \in 1..10 : DigitChars[i] = c) - 1
WhiteSpace == {" "}

RECURSIVE NatToString(_)
NatToString(i) ==
  IF i < 10 THEN <<DigitChars[i + 1]>>
  ELSE NatToString(i \div 10) \o <<DigitChars[(i % 10) + 1]>>

\* value.toString() of a number or a string
toString(v) ==
  CASE v.kind = "str" -> v.s
    [] v.kind = "num" -> IF v.n < 0 THEN <<"-">> \o NatToString(-v.n) ELSE NatToString(v.n)
    [] OTHER -> <<"N", "a", "N">>

RECURSIVE TrimStart(_)
TrimStart(cs) ==
  IF cs # <<>> /\ Head(cs) \in WhiteSpace THEN TrimStart(Tail(cs)) ELSE cs

RECURSIVE DigitPrefix(_)
DigitPrefix(cs) ==
  IF cs # <<>> /\ IsDigit(Head(cs)) THEN <<Head(cs)>> \o DigitPrefix(Tail(cs)) ELSE <<>>

RECURSIVE DecimalValue(_, _)
DecimalValue(cs, acc) ==
  IF cs = <<>> THEN acc ELSE DecimalValue(Tail(cs), acc * 10 + DigitVal(Head(cs)))

\* parseInt(string) with no radix: leading white space, an optional sign, then
\* the longest run of decimal digits; NaN when there is none.  (The 0x prefix
\* is left out: no input alphabet below contains x.)
parseInt(cs) ==
  LET t == TrimStart(cs)
      neg == t # <<>> /\ Head(t) = "-"
      u == IF t # <<>> /\ Head(t) \in {"+", "-"} THEN Tail(t) ELSE t
      z == DigitPrefix(u)
  IN IF z = <<>> THEN NaN
     ELSE JsNum(IF neg THEN -DecimalValue(z, 0) ELSE DecimalValue(z, 0))

(* --------------------------- string constants -------------------------- *)
S_asc == <<"a", "s", "c">>
S_desc == <<"d", "e", "s", "c">>
S_insensitive == <<"i", "n", "s">>
S_name == <<"n", "a", "m", "e">>
S_MALE == <<"M">>
S_FEMALE == <<"F">>
S_OTHER == <<"O">>
S_INDIVIDUAL == <<"I">>
S_TEAM == <<"T">>
S_ADMIN == <<"A", "D">>
S_NOT_STARTED == <<"N">>
S_IN_PROGRESS == <<"I">>
S_FINISHED == <<"F">>
S_POSTPONED == <<"P">>
S_CANCELLED == <<"C">>
GameStatus == {S_NOT_STARTED, S_IN_PROGRESS, S_FINISHED, S_POSTPONED, S_CANCELLED}
S_COACH == <<"C", "O">>
S_STUDENT == <<"S", "T">>
S_STAFF == <<"S", "F">>
Role == {S_ADMIN, S_COACH, S_STUDENT, S_STAFF}
S_U1 == <<"U", "1">>
S_U2 == <<"U", "2">>
S_S1 == <<"S", "1">>
S_S2 == <<"S", "2">>

(* ------------------------- buildQueryOptions --------------------------- *)
OptionKeys == {"page", "limit", "sortBy", "sortOrder", "search",
               "gender", "role", "sportId", "universityId"}

EmptyMap == [x \in {} |-> x]

NoOptions == [k \in OptionKeys |-> JsUndefined]

\* the map stops one field short
SearchOr_DropsLast(search, searchFields) ==
  [i \in 1..(Len(searchFields) - 1) |->
     [field |-> searchFields[i], contains |-> search, mode |-> S_insensitive]]

\* searchFields.map(field => ({[field]: {contains: search, mode: 'insensitive'}}))
SearchOr(search, searchFields) ==
  [i \in 1..Len(searchFields) |->
     [field |-> searchFields[i], contains |-> search, mode |-> S_insensitive]]

\* a page of 0 where the code has 1
PageOf_DefaultZero(options) ==
  IF Truthy(options.page) THEN parseInt(toString(options.page)) ELSE JsNum(0)

\* const page = options.page ? parseInt(options.page.toString()) : 1
PageOf(options) ==
  IF Truthy(options.page) THEN parseInt(toString(options.page)) ELSE JsNum(1)

\* const limit = options.limit ? parseInt(options.limit.toString()) : 10
LimitOf(options) ==
  IF Truthy(options.limit) THEN parseInt(toString(options.limit)) ELSE JsNum(10)

\* page * limit where the code has (page - 1) * limit
SkipOf_NoDecrement(page, limit) == JsMul(page, limit)

\* const skip = (page - 1) * limit
SkipOf(page, limit) == JsMul(JsSub(page, JsNum(1)), limit)

\* a descending default where the code has 'asc'
OrderByOf_DefaultDesc(options) ==
  IF Truthy(options.sortBy)
  THEN (options.sortBy.s :> JsOr(options.sortOrder, JsStr(S_desc)))
  ELSE EmptyMap

\* if (options.sortBy) orderBy[options.sortBy] = options.sortOrder || 'asc'
OrderByOf(options) ==
  IF Truthy(options.sortBy)
  THEN (options.sortBy.s :> JsOr(options.sortOrder, JsStr(S_asc)))
  ELSE EmptyMap

\* the search clause whenever the key is given, also for ""
SearchClause_WhenDefined(options, searchFields) ==
  IF options.search.kind # "undefined"
  THEN ("OR" :> SearchOr(options.search, searchFields)) ELSE EmptyMap

\* if (options.search) where.OR = searchFields.map(...)
SearchClause(options, searchFields) ==
  IF Truthy(options.search)
  THEN ("OR" :> SearchOr(options.search, searchFields)) ELSE EmptyMap

\* the role filter written under the gender key
GenderClause_FromRole(options) ==
  IF Truthy(options.gender) THEN ("gender" :> options.role) ELSE EmptyMap

\* if (options.gender) where.gender = options.gender
GenderClause(options) ==
  IF Truthy(options.gender) THEN ("gender" :> options.gender) ELSE EmptyMap

\* if (options.role) where.role = options.role
RoleClause(options) ==
  IF Truthy(options.role) THEN ("role" :> options.role) ELSE EmptyMap

\* if (options.sportId) where.sportId = options.sportId
SportIdClause(options) ==
  IF Truthy(options.sportId) THEN ("sportId" :> options.sportId) ELSE EmptyMap

\* a direct universityId key where the code reaches through the relation
UniversityClause_Direct(options) ==
  IF Truthy(options.universityId)
  THEN ("universityId" :> options.universityId) ELSE EmptyMap

\* if (options.universityId) where.sport = { universityId: options.universityId }
UniversityClause(options) ==
  IF Truthy(options.universityId)
  THEN ("sport" :> [universityId |-> options.universityId]) ELSE EmptyMap

\* an else-if chain: the search clause shadows the exact-match filters
WhereOf_SearchShadows(options, searchFields) ==
  IF Truthy(options.search) THEN SearchClause(options, searchFields)
  ELSE GenderClause(options) @@ RoleClause(options)
       @@ SportIdClause(options) @@ UniversityClause(options)

\* let where = {}; the five independent if statements
WhereOf(options, searchFields) ==
  SearchClause(options, searchFields) @@ GenderClause(options) @@ RoleClause(options)
  @@ SportIdClause(options) @@ UniversityClause(options)

buildQueryOptions(options, searchFields) ==
  LET page == PageOf(options)
      limit == LimitOf(options)
      skip == SkipOf(page, limit)
  IN [skip |-> skip, take |-> limit,
      orderBy |-> OrderByOf(options),
      where |-> WhereOf(options, searchFields)]

NoDescriptor ==
  [skip |-> JsUndefined, take |-> JsUndefined, orderBy |-> EmptyMap, where |-> EmptyMap]

(* ------------------- Prisma string filter semantics -------------------- *)
UpperChars == <<"A", "B", "C", "D", "E", "F", "G", "H", "I", "J", "K", "L", "M",
                "N", "O", "P", "Q", "R", "S", "T", "U", "V", "W", "X", "Y", "Z">>
LowerChars == <<"a", "b", "c", "d", "e", "f", "g", "h", "i", "j", "k", "l", "m",
                "n", "o", "p", "q", "r", "s", "t", "u", "v", "w", "x", "y", "z">>

LowerChar(c) ==
  IF \E i \in 1..26 : UpperChars[i] = c
  THEN LowerChars[CHOOSE i \in 1..26 : UpperChars[i] = c] ELSE c

LowerCase(cs) == [i \in 1..Len(cs) |-> LowerChar(cs[i])]

RECURSIVE StartsWith(_, _)
StartsWith(cs, prefix) ==
  \/ prefix = <<>>
  \/ cs # <<>> /\ Head(cs) = Head(prefix) /\ StartsWith(Tail(cs), Tail(prefix))

RECURSIVE Contains(_, _)
Contains(cs, needle) ==
  \/ StartsWith(cs, needle)
  \/ cs # <<>> /\ Contains(Tail(cs), needle)

\* { contains: needle, mode: 'insensitive' } on a String column
ContainsInsensitive(cs, needle) == Contains(LowerCase(cs), LowerCase(needle))

\* { OR: [ {field: {contains, mode}}, ... ] } on a row of String columns
MatchesOr(row, or) ==
  \E i \in 1..Len(or) :
    /\ row[or[i].field].kind = "str"
    /\ ContainsInsensitive(row[or[i].field].s, or[i].contains.s)

(* ------------------------------ inputs --------------------------------- *)
RECURSIVE StringsUpTo(_, _)
StringsUpTo(alphabet, len) ==
  IF len = 0 THEN {<<>>}
  ELSE LET shorter == StringsUpTo(alphabet, len - 1)
       IN shorter \cup {Append(cs, c) : cs \in shorter, c \in alphabet}

NumChars == {"0", "1", "2", "-", " ", "a"}

\* the documented maximum of limit, which the builder does not enforce
LimitDocMax == 100

PageInputs ==
  {JsUndefined} \cup {JsStr(cs) : cs \in StringsUpTo(NumChars, MaxPageLen)}
  \cup {JsNum(i) : i \in -MaxInt..MaxInt}

LimitInputs ==
  {JsUndefined} \cup {JsStr(cs) : cs \in StringsUpTo(NumChars, MaxLimitLen)}
  \cup {JsNum(i) : i \in -MaxInt..MaxInt}
  \cup {JsNum(LimitDocMax + i) : i \in 0..MaxInt}

Opt(values) == {JsUndefined, JsStr(<<>>)} \cup {JsStr(cs) : cs \in values}

\* requests that vary sorting and the filters
FilterOptions ==
  {[page |-> p, limit |-> l, sortBy |-> sb, sortOrder |-> so, search |-> se,
    gender |-> g, role |-> r, sportId |-> sp, universityId |-> u] :
     p \in {JsUndefined, JsStr(<<"2">>)}, l \in {JsUndefined},
     sb \in Opt({S_name}), so \in Opt({S_asc, S_desc}),
     se \in Opt({<<"a">>, <<"A", "b">>}),
     g \in Opt({S_MALE}), r \in Opt({S_ADMIN}), sp \in Opt({S_S1}),
     u \in Opt({S_U1})}

FieldNames == {"name", "location", "homeTeam"}

RECURSIVE ListsUpTo(_, _)
ListsUpTo(elems, len) ==
  IF len = 0 THEN {<<>>}
  ELSE LET shorter == ListsUpTo(elems, len - 1)
       IN shorter \cup UNION {{Append(l, e) : e \in elems \ {l[i] : i \in 1..Len(l)}} :
                                 l \in {x \in shorter : Len(x) = len - 1}}

FieldLists == ListsUpTo(FieldNames, MaxFields)

(* ------------------------------- state --------------------------------- *)
VARIABLES
  options,       \* the query parameters of the current call or list request
  searchFields,  \* the searchable fields the caller passes
  descriptor,    \* what buildQueryOptions returned
  pc,            \* "call" before a direct call of the builder, "ret" after;
                 \* "idle" awaiting a request, "served" once a handler has
                 \* produced its response
  university,    \* table University: a set of rows
  sport,         \* table Sport
  fixture,       \* table Fixture
  nextId,        \* per table, how many ids the storage layer has issued
  response,      \* the response to the last request
  result,        \* table Result
  user,          \* table User
  calls,         \* the builder calls made so far: arguments and return value
  request,       \* the body and file of the create request being served
  req,           \* per request in progress on /api/results: its position,
                 \* its input and what its awaited calls returned
  started,       \* how many requests on /api/results have been accepted
  commits,       \* the Result writes in the order storage committed them
  events,        \* the events io.emit has published, in order
  connected,     \* the sockets connected to io
  inflight,      \* <<event, socket>>: packets written, not yet received
  inbox          \* per socket, the events it has received, in order

vars == <<options, searchFields, descriptor, pc, university, sport, fixture,
          nextId, response, result, user, calls, request, req, started, commits, events,
          connected, inflight, inbox>>

tables == <<university, sport, fixture, result, user, nextId>>

\* the requests in progress on /api/results and the socket.io server
flow == <<req, started, commits, events, connected, inflight, inbox>>

NoResponse == [op |-> "none", status |-> 0, body |-> EmptyMap]

\* no create request is being served
NoRequestBody == [body |-> EmptyMap, file |-> "none"]

\* what an expression that throws leaves in place of its value
Thrown == [kind |-> "throw", n |-> 0, s |-> <<>>]

\* the given value, or the default of the column when none is given
OrDefault(v, default) == IF v.kind = "undefined" THEN default ELSE v

\* a row with the id is stored
Stored(rows, id) == \E x \in rows : x.id = id

\* the requests the event loop has in progress, and the sockets of io
Slots == 1..MaxSlots
Sockets == 1..MaxSockets

\* what an awaited storage call returned: nothing yet
NoReturn == [ok |-> FALSE, value |-> JsNull]

\* a slot with no request in it; n numbers the requests as they are accepted
NoRequest ==
  [n |-> 0, pc |-> "idle", resource |-> "none", op |-> "none", id |-> JsUndefined,
   body |-> EmptyMap,
   file |-> "none", imageUrl |-> JsUndefined, ret |-> NoReturn,
   response |-> NoResponse]

(* ------------------------- the schema (Prisma) ------------------------- *)
Columns ==
  [University |-> [id |-> "String", name |-> "String", location |-> "String",
                   imageUrl |-> "String"],
   Sport |-> [id |-> "String", name |-> "String", universityId |-> "String",
              type |-> "SportType"],
   Fixture |-> [id |-> "String", sportId |-> "String", homeTeam |-> "String",
                awayTeam |-> "String", date |-> "DateTime", venue |-> "String",
                gender |-> "Gender"],
   Result |-> [id |-> "String", fixtureId |-> "String", homeScore |-> "Int",
               awayScore |-> "Int", homeScorers |-> "String[]",
               awayScorers |-> "String[]", status |-> "GameStatus",
               currentPeriod |-> "String", timeElapsed |-> "Int",
               imageUrl |-> "String"],
   User |-> [id |-> "String", name |-> "String", email |-> "String",
             password |-> "String", role |-> "Role", gender |-> "Gender",
             universityId |-> "String"]]

\* to-one relations: the model they lead to and the column holding the key
ToOne ==
  [University |-> EmptyMap,
   Sport |-> [university |-> [model |-> "University", fk |-> "universityId"]],
   Fixture |-> [sport |-> [model |-> "Sport", fk |-> "sportId"]],
   Result |-> [fixture |-> [model |-> "Fixture", fk |-> "fixtureId"]],
   User |-> [university |-> [model |-> "University", fk |-> "universityId"]]]

Enums ==
  [Gender |-> {S_MALE, S_FEMALE, S_OTHER},
   SportType |-> {S_INDIVIDUAL, S_TEAM, S_OTHER},
   Role |-> Role,
   GameStatus |-> GameStatus]

Table(model) ==
  CASE model = "University" -> university
    [] model = "Sport" -> sport
    [] model = "Fixture" -> fixture
    [] model = "Result" -> result
    [] model = "User" -> user

\* the character sequence a column name is written with
ColumnChars == [name |-> S_name]

\* the k-th identity the storage layer issues for a table
IdOf(prefix, k) == JsStr(<<prefix, DigitChars[k + 1]>>)

(* --------------------- the Prisma client's queries --------------------- *)
\* an equality filter value the client accepts for a column of this type
ValidScalarFilter(type, v) ==
  CASE type = "String" -> v.kind = "str"
    [] type \in DOMAIN Enums -> v.kind = "str" /\ v.s \in Enums[type]
    [] OTHER -> FALSE

\* the client validates where against the model's WhereInput before querying
ValidWhere(model, where) ==
  \A k \in DOMAIN where :
    CASE k = "OR" ->
           \A i \in 1..Len(where[k]) :
             /\ where[k][i].field \in DOMAIN Columns[model]
             /\ Columns[model][where[k][i].field] = "String"
      [] k \in DOMAIN Columns[model] ->
           ValidScalarFilter(Columns[model][k], where[k])
      [] k \in DOMAIN ToOne[model] ->
           \A nk \in DOMAIN where[k] :
             /\ nk \in DOMAIN Columns[ToOne[model][k].model]
             /\ ValidScalarFilter(Columns[ToOne[model][k].model][nk], where[k][nk])
      [] OTHER -> FALSE

ValidOrderBy(model, orderBy) ==
  \A k \in DOMAIN orderBy :
    /\ \E c \in DOMAIN ColumnChars : c \in DOMAIN Columns[model] /\ ColumnChars[c] = k
    /\ orderBy[k] \in {JsStr(S_asc), JsStr(S_desc)}

\* a row satisfies where: every key holds (OR: some entry; a column: equal;
\* a to-one relation: the related row has the nested values)
Matches(model, row, where) ==
  \A k \in DOMAIN where :
    CASE k = "OR" -> MatchesOr(row, where[k])
      [] k \in DOMAIN Columns[model] -> row[k] = where[k]
      [] OTHER ->
           \E t \in Table(ToOne[model][k].model) :
             /\ t.id = row[ToOne[model][k].fk]
             /\ \A nk \in DOMAIN where[k] : t[nk] = where[k][nk]

Matching(model, where) == {row \in Table(model) : Matches(model, row, where)}

CharOrder == DigitChars \o UpperChars \o LowerChars
CharRank(c) == CHOOSE i \in 1..Len(CharOrder) : CharOrder[i] = c

RECURSIVE StrLeq(_, _)
StrLeq(a, b) ==
  \/ a = <<>>
  \/ /\ b # <<>>
     /\ \/ CharRank(Head(a)) < CharRank(Head(b))
        \/ Head(a) = Head(b) /\ StrLeq(Tail(a), Tail(b))

\* the orders in which the database may return rows: any order when orderBy
\* is empty, else ordered by the column, ties in any order
Orderings(rows, orderBy) ==
  {seq \in [1..Cardinality(rows) -> rows] :
     /\ \A i, j \in 1..Cardinality(rows) : i # j => seq[i] # seq[j]
     /\ \A k \in DOMAIN orderBy :
          \A i, j \in 1..Cardinality(rows) :
            i < j =>
              LET c == CHOOSE c \in DOMAIN ColumnChars : ColumnChars[c] = k
              IN IF orderBy[k] = JsStr(S_asc)
                 THEN StrLeq(seq[i][c].s, seq[j][c].s)
                 ELSE StrLeq(seq[j][c].s, seq[i][c].s)}

Min(a, b) == IF a < b THEN a ELSE b
Max(a, b) == IF a > b THEN a ELSE b

\* skip rows, then take: forwards, or backwards from the end when take < 0
PageOfRows(seq, skip, take) ==
  IF take >= 0
  THEN SubSeq(seq, skip + 1, Min(Len(seq), skip + take))
  ELSE SubSeq(seq, Max(1, Len(seq) - skip + take + 1), Len(seq) - skip)

\* whether findMany({skip, take, orderBy, where}) passes validation
FindManyAccepts(model, d) ==
  /\ d.skip.kind = "num" /\ d.skip.n >= 0
  /\ d.take.kind = "num"
  /\ ValidOrderBy(model, d.orderBy)
  /\ ValidWhere(model, d.where)

\* the pages findMany may resolve to
FindMany(model, d) ==
  {PageOfRows(seq, d.skip.n, d.take.n) : seq \in Orderings(Matching(model, d.where), d.orderBy)}

\* a count that ignores where
Count_All(model, where) == Cardinality(Table(model))

\* count({where})
Count(model, where) == Cardinality(Matching(model, where))

(* ------------------------------ includes ------------------------------- *)
UniversityOf(s) ==
  IF \E u \in university : u.id = s.universityId
  THEN CHOOSE u \in university : u.id = s.universityId ELSE JsNull

\* include: { fixtures: true }
SportWithFixtures(s) == s @@ [fixtures |-> {f \in fixture : f.sportId = s.id}]

\* include: { university: true }
SportWithUniversity(s) == s @@ [university |-> UniversityOf(s)]

\* include: { sport: { include: { university: true } }, result: true }
FixtureWithSport(f) ==
  f @@ [sport |-> SportWithUniversity(CHOOSE s \in sport : s.id = f.sportId),
        result |-> IF \E x \in result : x.fixtureId = f.id
                   THEN CHOOSE x \in result : x.fixtureId = f.id ELSE JsNull]

\* the same with imageUrl left out of what is read back
UniversityWithRelations_NoImage(u) ==
  [u EXCEPT !.imageUrl = JsNull]
    @@ [sports |-> {s \in sport : s.universityId = u.id},
        users |-> {[id |-> x.id, name |-> x.name, email |-> x.email, role |-> x.role] :
                     x \in {y \in user : y.universityId = u.id}}]

\* include: { sports: true, users: { select: { id, name, email, role } } }
UniversityWithRelations(u) ==
  u @@ [sports |-> {s \in sport : s.universityId = u.id},
        users |-> {[id |-> x.id, name |-> x.name, email |-> x.email, role |-> x.role] :
                     x \in {y \in user : y.universityId = u.id}}]

\* include: { fixture: true }
ResultWithFixture(r) ==
  r @@ [fixture |-> CHOOSE f \in fixture : f.id = r.fixtureId]

\* the select clause left out: every column of the row is returned
UserSelected_AllColumns(x) ==
  x @@ [university |-> IF \E u \in university : u.id = x.universityId
                       THEN [name |-> (CHOOSE u \in university : u.id = x.universityId).name]
                       ELSE JsNull]

\* the select of the user handlers: every column but password, and the name
\* of the university
UserSelected(x) ==
  [id |-> x.id, name |-> x.name, email |-> x.email, role |-> x.role,
   gender |-> x.gender, universityId |-> x.universityId,
   university |-> IF \E u \in university : u.id = x.universityId
                  THEN [name |-> (CHOOSE u \in university : u.id = x.universityId).name]
                  ELSE JsNull]

\* the include clause each list handler passes to findMany
Included(op, row) ==
  CASE op = "listSports" -> SportWithFixtures(row)
    [] op = "listSportsWithUniversity" -> SportWithUniversity(row)
    [] op = "listFixtures" -> FixtureWithSport(row)
    [] op = "listUniversities" -> UniversityWithRelations(row)
    [] op = "listResults" -> ResultWithFixture(row)
    [] op = "listUsers" -> UserSelected(row)

\* the client refuses arguments that carry both include and select, which
\* only the user list passes
SelectsAndIncludes(op) == op = "listUsers"

(* ------------------------------ handlers ------------------------------- *)
Respond(op, status, body) == [op |-> op, status |-> status, body |-> body]

ErrorBody(message) == [error |-> message]

\* the list envelope: page and limit echo the raw parameters
ListBody(data, total, opts) ==
  [data |-> data, total |-> total,
   page |-> JsOr(opts.page, JsNum(1)), limit |-> JsOr(opts.limit, JsNum(10))]

\* the query strings the list requests are drawn from
ListRequests ==
  {[NoOptions EXCEPT !.page = p, !.limit = l, !.universityId = u] :
     p \in {JsUndefined, JsStr(<<"2">>), JsStr(<<"0">>)},
     l \in {JsUndefined, JsStr(<<"1">>)},
     u \in {JsUndefined, JsStr(S_U1), JsStr(S_U2)}}
  \cup
  {[NoOptions EXCEPT !.sortBy = JsStr(S_name), !.sortOrder = so, !.search = se,
                     !.sportId = sp] :
     so \in {JsUndefined, JsStr(S_desc)},
     se \in {JsUndefined, JsStr(<<"a">>)},
     sp \in {JsUndefined, JsStr(S_S1)}}

\* a list handler: build the descriptor, run findMany and count, answer 200
\* with the envelope, or 500 when either query throws
List(op, model, fields, message) ==
  \E opts \in ListRequests :
    LET d == buildQueryOptions(opts, fields)
    IN /\ pc = "idle"
       /\ options' = opts
       /\ searchFields' = fields
       /\ descriptor' = d
       /\ pc' = "served"
       /\ IF ~SelectsAndIncludes(op) /\ FindManyAccepts(model, d)
          THEN \E rows \in FindMany(model, d) :
                 response' = Respond(op, 200,
                                ListBody([i \in 1..Len(rows) |-> Included(op, rows[i])],
                                         Count(model, d.where), opts))
          ELSE response' = Respond(op, 500, ErrorBody(message))
       /\ UNCHANGED <<tables, calls, request, flow>>

\* GET /api/sports (include fixtures)
ListSports ==
  List("listSports", "Sport", <<"name">>,
       "An error occurred while fetching sports")

\* GET /api/sports (include university)
ListSportsWithUniversity ==
  List("listSportsWithUniversity", "Sport", <<"name">>,
       "An error occurred while fetching sports")

\* GET /api/fixtures
ListFixtures ==
  List("listFixtures", "Fixture", <<"homeTeam", "awayTeam", "venue">>,
       "An error occurred while fetching fixtures")

\* GET /api/universities
ListUniversities ==
  List("listUniversities", "University", <<"name", "location">>,
       "An error occurred while fetching universities")

\* GET /api/results
ListResults ==
  List("listResults", "Result", <<"homeScore", "awayScore", "status">>,
       "An error occurred while fetching results")

\* GET /api/users
ListUsers ==
  List("listUsers", "User", <<"name", "email", "role", "gender">>,
       "An error occurred while fetching users")

Served(op, status, body) ==
  /\ pc = "idle"
  /\ response' = Respond(op, status, body)
  /\ pc' = "served"
  /\ UNCHANGED <<options, searchFields, descriptor, calls, flow>>

\* POST /api/universities: upload the image if any, then create the row
CreateUniversity ==
  \E name \in {JsUndefined, JsStr(<<"A">>)}, location \in {JsStr(<<"b">>)},
     file \in {"none", "uploaded", "uploadFails"} :
    LET imageUrl == IF file = "uploaded" THEN JsStr(<<"i">>) ELSE JsNull
        row == [id |-> IdOf("U", nextId.University + 1), name |-> name,
                location |-> location, imageUrl |-> imageUrl]
    IN /\ nextId.University < MaxUniversities
       /\ request' = [body |-> [name |-> name, location |-> location], file |-> file]
       /\ IF file # "uploadFails" /\ name.kind = "str" /\ location.kind = "str"
          THEN /\ university' = university \cup {row}
               /\ nextId' = [nextId EXCEPT !.University = @ + 1]
               /\ Served("createUniversity", 201, row @@ [sports |-> {}, users |-> {}])
          ELSE /\ UNCHANGED <<university, nextId>>
               /\ Served("createUniversity", 500,
                         ErrorBody("An error occurred while creating the university"))
       /\ UNCHANGED <<sport, fixture, result, user>>

\* POST /api/sports with { name, type }
CreateSport ==
  \E name \in {JsStr(<<"a">>)}, type \in {JsUndefined, JsStr(S_TEAM), JsStr(<<"x">>)} :
    LET row == [id |-> IdOf("S", nextId.Sport + 1), name |-> name,
                universityId |-> JsNull,
                type |-> IF type.kind = "undefined" THEN JsStr(S_INDIVIDUAL) ELSE type]
    IN /\ nextId.Sport < MaxSports
       /\ request' = [body |-> [name |-> name, type |-> type], file |-> "none"]
       /\ IF name.kind = "str"
             /\ (type.kind = "undefined" \/ ValidScalarFilter("SportType", type))
          THEN /\ sport' = sport \cup {row}
               /\ nextId' = [nextId EXCEPT !.Sport = @ + 1]
               /\ Served("createSport", 201, row @@ [fixtures |-> {}])
          ELSE /\ UNCHANGED <<sport, nextId>>
               /\ Served("createSport", 500,
                         ErrorBody("An error occurred while creating the sport"))
       /\ UNCHANGED <<university, fixture, result, user>>

\* POST /api/sports with { name, universityId }
CreateSportForUniversity ==
  \E name \in {JsStr(<<"B", "a">>)},
     universityId \in {JsUndefined, JsStr(S_U1), JsStr(S_U2)} :
    LET row == [id |-> IdOf("S", nextId.Sport + 1), name |-> name,
                universityId |-> IF universityId.kind = "undefined" THEN JsNull
                                 ELSE universityId,
                type |-> JsStr(S_INDIVIDUAL)]
    IN /\ nextId.Sport < MaxSports
       /\ request' = [body |-> [name |-> name, universityId |-> universityId],
                      file |-> "none"]
       /\ IF /\ name.kind = "str"
             /\ \/ universityId.kind = "undefined"
                \/ \E u \in university : u.id = universityId
          THEN /\ sport' = sport \cup {row}
               /\ nextId' = [nextId EXCEPT !.Sport = @ + 1]
               /\ Served("createSportForUniversity", 201,
                         row @@ [university |-> UniversityOf(row)])
          ELSE /\ UNCHANGED <<sport, nextId>>
               /\ Served("createSportForUniversity", 500,
                         ErrorBody("An error occurred while creating the sport"))
       /\ UNCHANGED <<university, fixture, result, user>>

\* POST /api/fixtures
CreateFixture ==
  \E sportId \in {JsStr(S_S1), JsStr(S_S2)}, gender \in {JsStr(S_MALE), JsStr(<<"x">>)},
     date \in {JsUndefined, JsStr(<<"d">>)} :
    LET row == [id |-> IdOf("F", nextId.Fixture + 1), sportId |-> sportId,
                homeTeam |-> JsStr(<<"A">>), awayTeam |-> JsStr(<<"b">>),
                date |-> date, venue |-> JsStr(<<"a">>), gender |-> gender]
    IN /\ nextId.Fixture < MaxFixtures
       /\ request' = [body |-> [sportId |-> sportId, homeTeam |-> JsStr(<<"A">>),
                                awayTeam |-> JsStr(<<"b">>), date |-> date,
                                venue |-> JsStr(<<"a">>), gender |-> gender],
                      file |-> "none"]
       /\ IF /\ \E s \in sport : s.id = sportId
             /\ date.kind = "str"
             /\ ValidScalarFilter("Gender", gender)
          THEN /\ fixture' = fixture \cup {row}
               /\ nextId' = [nextId EXCEPT !.Fixture = @ + 1]
               /\ Served("createFixture", 201,
                         row @@ [sport |-> SportWithUniversity(CHOOSE s \in sport : s.id = sportId)])
          ELSE /\ UNCHANGED <<fixture, nextId>>
               /\ Served("createFixture", 500,
                         ErrorBody("An error occurred while creating the fixture"))
       /\ UNCHANGED <<university, sport, result, user>>

\* bcrypt.hash(password, 10): a text that is not the password; it throws when
\* password is no string
BcryptHash(password) ==
  IF password.kind = "str" THEN JsStr(<<"#">> \o password.s) ELSE Thrown

\* the bodies POST /api/users is sent: complete ones, one with a role and
\* one with a gender outside the enum, one without gender, one without
\* password, one for a university that does not exist
UserBodies ==
  LET body(email, password, role, gender, universityId) ==
        [name |-> JsStr(<<"a">>), email |-> JsStr(email), password |-> password,
         role |-> role, gender |-> gender, universityId |-> universityId]
      p == JsStr(<<"p">>)
  IN {body(<<"e">>, p, JsUndefined, JsStr(S_MALE), JsUndefined),
      body(<<"f">>, p, JsStr(S_ADMIN), JsStr(S_FEMALE), JsStr(S_U1)),
      body(<<"f">>, p, JsStr(<<"x">>), JsStr(S_MALE), JsUndefined),
      body(<<"f">>, p, JsUndefined, JsStr(<<"x">>), JsUndefined),
      body(<<"f">>, p, JsUndefined, JsUndefined, JsUndefined),
      body(<<"f">>, JsUndefined, JsUndefined, JsStr(S_MALE), JsUndefined),
      body(<<"f">>, p, JsUndefined, JsStr(S_MALE), JsStr(S_U2))}

\* the same with role taken as any text
UserCreateAccepts_AnyRole(data) ==
  /\ data.name.kind = "str" /\ data.email.kind = "str" /\ data.password.kind = "str"
  /\ ValidScalarFilter("Gender", data.gender)
  /\ \A x \in user : x.email # data.email
  /\ data.universityId.kind = "undefined" \/ Stored(university, data.universityId)

\* prisma.user.create resolves: the columns are valid, the email is not
\* taken (@unique) and the university, when one is named, exists
UserCreateAccepts(data) ==
  /\ data.name.kind = "str" /\ data.email.kind = "str" /\ data.password.kind = "str"
  /\ data.role.kind = "undefined" \/ ValidScalarFilter("Role", data.role)
  /\ ValidScalarFilter("Gender", data.gender)
  /\ \A x \in user : x.email # data.email
  /\ data.universityId.kind = "undefined" \/ Stored(university, data.universityId)

\* POST /api/users: hash the password, create the row, answer with the
\* selected columns
CreateUser ==
  \E body \in UserBodies :
    LET hashedPassword == BcryptHash(body.password)
        data == [body EXCEPT !.password = hashedPassword]
        row == [id |-> IdOf("X", nextId.User + 1), name |-> data.name,
                email |-> data.email, password |-> data.password,
                role |-> OrDefault(data.role, JsStr(S_STUDENT)),
                gender |-> data.gender,
                universityId |-> OrDefault(data.universityId, JsNull)]
    IN /\ nextId.User < MaxUsers
       /\ request' = [body |-> body, file |-> "none"]
       /\ IF hashedPassword.kind # "throw" /\ UserCreateAccepts(data)
          THEN /\ user' = user \cup {row}
               /\ nextId' = [nextId EXCEPT !.User = @ + 1]
               /\ Served("createUser", 201, UserSelected(row))
          ELSE /\ UNCHANGED <<user, nextId>>
               /\ Served("createUser", 500,
                         ErrorBody("An error occurred while creating the user"))
       /\ UNCHANGED <<university, sport, fixture, result>>

\* res.json / res.send has written the response; the request is over
Finish ==
  /\ pc = "served"
  /\ pc' = "idle"
  /\ response' = NoResponse
  /\ options' = NoOptions
  /\ searchFields' = <<>>
  /\ descriptor' = NoDescriptor
  /\ request' = NoRequestBody
  /\ UNCHANGED <<tables, calls, flow>>

\* no id issued yet
NoIds == [University |-> 0, Sport |-> 0, Fixture |-> 0, Result |-> 0, User |-> 0]

\* no request on /api/results accepted yet, no socket connected
FlowAtStart ==
  /\ req = [r \in Slots |-> NoRequest]
  /\ started = 0
  /\ commits = <<>>
  /\ events = <<>>
  /\ connected = {}
  /\ inflight = {}
  /\ inbox = [c \in Sockets |-> <<>>]

Init ==
  /\ options = NoOptions
  /\ searchFields = <<>>
  /\ descriptor = NoDescriptor
  /\ pc = "idle"
  /\ university = {}
  /\ sport = {}
  /\ fixture = {}
  /\ result = {}
  /\ user = {}
  /\ nextId = NoIds
  /\ response = NoResponse
  /\ calls = <<>>
  /\ request = NoRequestBody
  /\ FlowAtStart

Next ==
  \/ CreateUniversity
  \/ CreateSport
  \/ CreateSportForUniversity
  \/ CreateFixture
  \/ ListSports
  \/ ListSportsWithUniversity
  \/ ListFixtures
  \/ Finish

Spec == Init /\ [][Next]_vars

(* -------------------- direct calls of the builder ---------------------- *)
\* the same, with where hoisted out of the function so that the keys of
\* earlier calls stay in it
Build_SharedWhere ==
  /\ pc = "call"
  /\ descriptor' = [buildQueryOptions(options, searchFields)
                      EXCEPT !.where = @ @@ descriptor.where]
  /\ calls' = Append(calls, [options |-> options, searchFields |-> searchFields,
                              descriptor |-> descriptor'])
  /\ pc' = "ret"
  /\ UNCHANGED <<options, searchFields, tables, response, request, flow>>

\* a direct call of buildQueryOptions(options, searchFields); calls keeps the
\* arguments as passed and the value returned
Build ==
  /\ pc = "call"
  /\ descriptor' = buildQueryOptions(options, searchFields)
  /\ calls' = Append(calls, [options |-> options, searchFields |-> searchFields,
                              descriptor |-> descriptor'])
  /\ pc' = "ret"
  /\ UNCHANGED <<options, searchFields, tables, response, request, flow>>

InitQB ==
  /\ \/ /\ \E p \in PageInputs, l \in LimitInputs :
             options = [NoOptions EXCEPT !.page = p, !.limit = l]
        /\ searchFields \in {<<"name">>}
     \/ options \in FilterOptions /\ searchFields \in FieldLists
  /\ descriptor = NoDescriptor
  /\ pc = "call"
  /\ university = {}
  /\ sport = {}
  /\ fixture = {}
  /\ result = {}
  /\ user = {}
  /\ nextId = NoIds
  /\ response = NoResponse
  /\ calls = <<>>
  /\ request = NoRequestBody
  /\ FlowAtStart

NextQB == Build

SpecQB == InitQB /\ [][NextQB]_vars

(* ------------------ repeated calls of the builder ---------------------- *)
\* the arguments the callers of a run pass: the handlers' field lists and
\* query strings that differ in one key each
PureInputs ==
  {[options |-> o, searchFields |-> f] :
     o \in {NoOptions,
             [NoOptions EXCEPT !.gender = JsStr(S_MALE)],
             [NoOptions EXCEPT !.search = JsStr(<<"a">>)],
             [NoOptions EXCEPT !.page = JsStr(<<"2">>), !.sportId = JsStr(S_S1)]},
     f \in {<<"name">>, <<"name", "location">>}}

\* the next caller (of this request or of another one) prepares its arguments
NextCall ==
  /\ pc = "ret"
  /\ Len(calls) < MaxCalls
  /\ \E in \in PureInputs :
       /\ options' = in.options
       /\ searchFields' = in.searchFields
  /\ pc' = "call"
  /\ UNCHANGED <<descriptor, tables, response, calls, request, flow>>

InitPure ==
  /\ \E in \in PureInputs :
       /\ options = in.options
       /\ searchFields = in.searchFields
  /\ descriptor = NoDescriptor
  /\ pc = "call"
  /\ university = {}
  /\ sport = {}
  /\ fixture = {}
  /\ result = {}
  /\ user = {}
  /\ nextId = NoIds
  /\ response = NoResponse
  /\ calls = <<>>
  /\ request = NoRequestBody
  /\ FlowAtStart

NextPure == Build \/ NextCall

SpecPure == InitPure /\ [][NextPure]_vars

(* ------------------------- /api/results: data --------------------------- *)
S_F1 == <<"F", "1">>
S_F2 == <<"F", "2">>
S_F3 == <<"F", "3">>
S_R1 == <<"R", "1">>
S_R2 == <<"R", "2">>

\* a JavaScript array of strings
JsArr(items) == [kind |-> "arr", n |-> 0, s |-> <<>>, items |-> items]

\* the position of the first double quote of cs, 0 when it has none
RECURSIVE QuoteAt(_, _)
QuoteAt(cs, k) ==
  IF k > Len(cs) THEN 0
  ELSE IF cs[k] = "\"" THEN k ELSE QuoteAt(cs, k + 1)

\* the elements of a JSON array of strings, cs being the text after "[" or
\* after a comma; Thrown when the text is no such array
RECURSIVE JsonElements(_, _)
JsonElements(cs, acc) ==
  IF cs = <<>> \/ Head(cs) # "\"" THEN Thrown
  ELSE LET close == QuoteAt(Tail(cs), 1)
           rest == SubSeq(cs, close + 2, Len(cs))
       IN IF close = 0 THEN Thrown
          ELSE IF rest = <<"]">> THEN JsArr(Append(acc, SubSeq(cs, 2, close)))
          ELSE IF rest # <<>> /\ Head(rest) = ","
               THEN JsonElements(Tail(rest), Append(acc, SubSeq(cs, 2, close)))
          ELSE Thrown

\* JSON.parse(text), for texts without white space, escapes or nesting: an
\* array of strings, a number, or a SyntaxError
JSONparse(cs) ==
  IF cs = <<"[", "]">> THEN JsArr(<<>>)
  ELSE IF cs # <<>> /\ Head(cs) = "[" THEN JsonElements(Tail(cs), <<>>)
  ELSE IF cs # <<>> /\ DigitPrefix(cs) = cs THEN JsNum(DecimalValue(cs, 0))
  ELSE Thrown

\* the fields of a multipart body the result handlers read
BodyKeys == {"fixtureId", "homeScore", "awayScore", "homeScorers", "awayScorers",
             "status", "currentPeriod", "timeElapsed"}
NoBody == [k \in BodyKeys |-> JsUndefined]

\* scorers ? JSON.parse(scorers) : otherwise
ScorersOf(field, otherwise) ==
  IF Truthy(field) THEN JSONparse(field.s) ELSE otherwise

\* timeElapsed ? parseInt(timeElapsed) : null
TimeElapsedOf(field) ==
  IF Truthy(field) THEN parseInt(toString(field)) ELSE JsNull

\* the data argument of prisma.result.create
CreateData(body, imageUrl) ==
  [fixtureId |-> body.fixtureId,
   homeScore |-> parseInt(toString(body.homeScore)),
   awayScore |-> parseInt(toString(body.awayScore)),
   homeScorers |-> ScorersOf(body.homeScorers, JsArr(<<>>)),
   awayScorers |-> ScorersOf(body.awayScorers, JsArr(<<>>)),
   status |-> body.status,
   currentPeriod |-> body.currentPeriod,
   timeElapsed |-> TimeElapsedOf(body.timeElapsed),
   imageUrl |-> imageUrl]

\* the data argument of prisma.result.update
UpdateData(body, imageUrl) ==
  [homeScore |-> parseInt(toString(body.homeScore)),
   awayScore |-> parseInt(toString(body.awayScore)),
   homeScorers |-> ScorersOf(body.homeScorers, JsUndefined),
   awayScorers |-> ScorersOf(body.awayScorers, JsUndefined),
   status |-> body.status,
   currentPeriod |-> body.currentPeriod,
   timeElapsed |-> TimeElapsedOf(body.timeElapsed),
   imageUrl |-> imageUrl]

\* building the data argument threw (JSON.parse), so no query was sent
DataThrows(data) ==
  data.homeScorers.kind = "throw" \/ data.awayScorers.kind = "throw"

(* ----------------------- /api/results: storage -------------------------- *)
\* the value is acceptable for a column of the kind: a required column takes
\* a value of its type, an optional one also null, and undefined leaves the
\* column to its default (create) or as it is (update)
Fits(v, type, mayBeAbsent, mayBeNull) ==
  \/ mayBeAbsent /\ v.kind = "undefined"
  \/ mayBeNull /\ v.kind = "null"
  \/ type = "String" /\ v.kind = "str"
  \/ type = "Int" /\ v.kind = "num"
  \/ type = "String[]" /\ v.kind = "arr"
  \/ type = "GameStatus" /\ v.kind = "str" /\ v.s \in GameStatus

\* the checks both writes make on the columns they share
ResultDataFits(data, isUpdate) ==
  /\ Fits(data.homeScore, "Int", isUpdate, FALSE)
  /\ Fits(data.awayScore, "Int", isUpdate, FALSE)
  /\ Fits(data.homeScorers, "String[]", TRUE, FALSE)
  /\ Fits(data.awayScorers, "String[]", TRUE, FALSE)
  /\ Fits(data.status, "GameStatus", TRUE, FALSE)
  /\ Fits(data.currentPeriod, "String", TRUE, TRUE)
  /\ Fits(data.timeElapsed, "Int", TRUE, TRUE)
  /\ Fits(data.imageUrl, "String", TRUE, TRUE)

\* the same without the unique index on fixtureId
ResultCreateAccepts_NoUnique(data) ==
  /\ Fits(data.fixtureId, "String", FALSE, FALSE)
  /\ ResultDataFits(data, FALSE)
  /\ \E f \in fixture : f.id = data.fixtureId

\* prisma.result.create resolves: the data is valid, the fixture exists and
\* has no result yet (fixtureId is @unique)
ResultCreateAccepts(data) ==
  /\ Fits(data.fixtureId, "String", FALSE, FALSE)
  /\ ResultDataFits(data, FALSE)
  /\ \E f \in fixture : f.id = data.fixtureId
  /\ \A r \in result : r.fixtureId # data.fixtureId

\* the row prisma.result.create stores under a fresh id
CreatedResult(data) ==
  [id |-> IdOf("R", nextId.Result + 1),
   fixtureId |-> data.fixtureId,
   homeScore |-> data.homeScore,
   awayScore |-> data.awayScore,
   homeScorers |-> data.homeScorers,
   awayScorers |-> data.awayScorers,
   status |-> OrDefault(data.status, JsStr(S_IN_PROGRESS)),
   currentPeriod |-> OrDefault(data.currentPeriod, JsNull),
   timeElapsed |-> OrDefault(data.timeElapsed, JsNull),
   imageUrl |-> OrDefault(data.imageUrl, JsNull)]

\* prisma.result.update resolves: the data is valid and the row exists
ResultUpdateAccepts(id, data) ==
  /\ ResultDataFits(data, TRUE)
  /\ \E r \in result : r.id = id

\* the row prisma.result.update stores: the given columns replaced
UpdatedResult(old, data) ==
  [id |-> old.id,
   fixtureId |-> old.fixtureId,
   homeScore |-> OrDefault(data.homeScore, old.homeScore),
   awayScore |-> OrDefault(data.awayScore, old.awayScore),
   homeScorers |-> OrDefault(data.homeScorers, old.homeScorers),
   awayScorers |-> OrDefault(data.awayScorers, old.awayScorers),
   status |-> OrDefault(data.status, old.status),
   currentPeriod |-> OrDefault(data.currentPeriod, old.currentPeriod),
   timeElapsed |-> OrDefault(data.timeElapsed, old.timeElapsed),
   imageUrl |-> OrDefault(data.imageUrl, old.imageUrl)]

(* ----------------------- /api/results: handlers ------------------------- *)
\* the requests a run draws from: creates for fixtures with and without a
\* result, for a missing fixture and with bodies storage refuses; updates and
\* deletes of ids that exist at some point and of one that never does
ResultRequests ==
  LET scores(h) == [NoBody EXCEPT !.homeScore = JsStr(<<h>>), !.awayScore = JsStr(<<"0">>)]
      create(body, file) == [op |-> "createResult", id |-> JsUndefined,
                             body |-> body, file |-> file]
      update(id, body, file) == [op |-> "updateResult", id |-> JsStr(id),
                                 body |-> body, file |-> file]
  IN {create([scores("1") EXCEPT !.fixtureId = JsStr(f)], "none") : f \in {S_F1, S_F2, S_F3}}
     \cup {create([scores("1") EXCEPT !.fixtureId = JsStr(S_F1), !.status = JsStr(S_FINISHED),
                                      !.homeScorers = JsStr(<<"[", "\"", "a", "\"", "]">>),
                                      !.timeElapsed = JsStr(<<"9">>)], "uploaded"),
           create([scores("1") EXCEPT !.fixtureId = JsStr(S_F1)], "uploadFails"),
           create([scores("1") EXCEPT !.fixtureId = JsStr(S_F1),
                                      !.awayScorers = JsStr(<<"a">>)], "none"),
           create([NoBody EXCEPT !.fixtureId = JsStr(S_F1)], "none")}
     \cup {update(S_R1, scores(h), "none") : h \in {"2", "3"}}
     \cup {update(S_R2, scores("2"), "none"),
           update(S_R1, [scores("2") EXCEPT !.status = JsStr(<<"x">>)], "none"),
           update(S_R1, scores("2"), "uploaded")}
     \cup {[op |-> "deleteResult", id |-> JsStr(id), body |-> NoBody, file |-> "none"] :
             id \in {S_R1, S_R2}}

\* the data argument the handler builds for its storage call
DataOf(q) ==
  IF q.op = "createResult" THEN CreateData(q.body, q.imageUrl)
  ELSE UpdateData(q.body, q.imageUrl)

\* the 500 envelope of each handler's catch block
FailureMessage(op) ==
  CASE op = "createResult" -> "An error occurred while creating the result"
    [] op = "updateResult" -> "An error occurred while updating the result"
    [] op = "deleteResult" -> "An error occurred while deleting the result"

\* a catch block that sends the request to storage again
Failed_Retries(q) ==
  IF q.pc = "resume" THEN [q EXCEPT !.pc = "write"]
  ELSE [q EXCEPT !.pc = "served",
                 !.response = Respond(q.op, 500, ErrorBody(FailureMessage(q.op)))]

\* the catch block has answered
Failed(q) ==
  [q EXCEPT !.pc = "served",
            !.response = Respond(q.op, 500, ErrorBody(FailureMessage(q.op)))]

\* the handler goes on to its storage call: building the data argument may
\* throw, otherwise the query is sent and the handler awaits it
ToWrite(q) ==
  IF q.op # "deleteResult" /\ DataThrows(DataOf(q)) THEN Failed(q)
  ELSE [q EXCEPT !.pc = "write"]

\* the router hands a request to its handler, which runs up to its first await
AcceptFrom(r, requests) ==
  /\ req[r].pc = "idle"
  /\ started < MaxRequests
  /\ \E in \in requests :
       LET q == [NoRequest EXCEPT !.n = started + 1, !.resource = "result",
                                  !.op = in.op, !.id = in.id,
                                  !.body = in.body, !.file = in.file,
                                  !.imageUrl = IF in.op = "createResult"
                                               THEN JsNull ELSE JsUndefined]
       IN req' = [req EXCEPT ![r] = IF in.file = "none" THEN ToWrite(q)
                                    ELSE [q EXCEPT !.pc = "upload"]]
  /\ started' = started + 1
  /\ UNCHANGED <<options, searchFields, descriptor, pc, response, calls, request, tables,
                 commits, events, connected, inflight, inbox>>

Accept(r) == AcceptFrom(r, ResultRequests)

\* a failed upload caught on its own: the write goes on without the image
Upload_FailureSkipped(r) ==
  /\ req[r].pc = "upload"
  /\ req' = [req EXCEPT ![r] =
               IF req[r].file = "uploaded"
               THEN ToWrite([req[r] EXCEPT !.imageUrl = JsStr(<<"i">>)])
               ELSE ToWrite(req[r])]
  /\ UNCHANGED <<options, searchFields, descriptor, pc, response, calls, request, tables,
                 started, commits, events, connected, inflight, inbox>>

\* await cloudinary.v2.uploader.upload settles
Upload(r) ==
  /\ req[r].pc = "upload"
  /\ req' = [req EXCEPT ![r] =
               IF req[r].file = "uploaded"
               THEN ToWrite([req[r] EXCEPT !.imageUrl = JsStr(<<"i">>)])
               ELSE Failed(req[r])]
  /\ UNCHANGED <<options, searchFields, descriptor, pc, response, calls, request, tables,
                 started, commits, events, connected, inflight, inbox>>

\* the storage call has settled; its continuation is yet to run
Settled(q, ok, value) ==
  [q EXCEPT !.pc = "resume", !.ret = [ok |-> ok, value |-> value]]

\* an entry of the commit log of storage
Committed(q, id, row) == [n |-> q.n, op |-> q.op, id |-> id, row |-> row]

\* storage executes prisma.result.create
CommitCreate(r) ==
  LET q == req[r]
      data == CreateData(q.body, q.imageUrl)
      row == CreatedResult(data)
  IN /\ q.pc = "write" /\ q.op = "createResult"
     /\ IF ResultCreateAccepts(data)
        THEN /\ result' = result \cup {row}
             /\ nextId' = [nextId EXCEPT !.Result = @ + 1]
             /\ commits' = Append(commits, Committed(q, row.id, ResultWithFixture(row)))
             /\ req' = [req EXCEPT ![r] = Settled(q, TRUE, ResultWithFixture(row))]
        ELSE /\ req' = [req EXCEPT ![r] = Settled(q, FALSE, JsNull)]
             /\ UNCHANGED <<result, nextId, commits>>

\* storage executes prisma.result.update
CommitUpdate(r) ==
  LET q == req[r]
      data == UpdateData(q.body, q.imageUrl)
  IN /\ q.pc = "write" /\ q.op = "updateResult"
     /\ IF ResultUpdateAccepts(q.id, data)
        THEN LET old == CHOOSE x \in result : x.id = q.id
                 row == UpdatedResult(old, data)
             IN /\ result' = (result \ {old}) \cup {row}
                /\ commits' = Append(commits, Committed(q, row.id, ResultWithFixture(row)))
                /\ req' = [req EXCEPT ![r] = Settled(q, TRUE, ResultWithFixture(row))]
        ELSE /\ req' = [req EXCEPT ![r] = Settled(q, FALSE, JsNull)]
             /\ UNCHANGED <<result, commits>>
     /\ UNCHANGED nextId

\* storage executes prisma.result.delete
CommitDelete(r) ==
  LET q == req[r]
  IN /\ q.pc = "write" /\ q.op = "deleteResult"
     /\ IF \E x \in result : x.id = q.id
        THEN /\ result' = {x \in result : x.id # q.id}
             /\ commits' = Append(commits, Committed(q, q.id, JsNull))
             /\ req' = [req EXCEPT ![r] = Settled(q, TRUE, JsNull)]
        ELSE /\ req' = [req EXCEPT ![r] = Settled(q, FALSE, JsNull)]
             /\ UNCHANGED <<result, commits>>
     /\ UNCHANGED nextId

\* the awaited storage call of a request settles
Commit(r) ==
  /\ CommitCreate(r) \/ CommitUpdate(r) \/ CommitDelete(r)
  /\ UNCHANGED <<options, searchFields, descriptor, pc, response, calls, request, university,
                 sport, fixture, user, started, events, connected, inflight, inbox>>

\* one event name for every write
EventName_AlwaysUpdate(op) == "resultUpdate"

\* io.emit(name, payload): the event and what is sent with it
EventName(op) == IF op = "deleteResult" THEN "resultDelete" ELSE "resultUpdate"

\* the row without its fixture
EventPayload_NoFixture(q) ==
  IF q.op = "deleteResult" THEN q.id
  ELSE [k \in DOMAIN q.ret.value \ {"fixture"} |-> q.ret.value[k]]

EventPayload(q) == IF q.op = "deleteResult" THEN q.id ELSE q.ret.value

\* io.emit writes one packet to every socket connected at this moment and
\* returns; by names the request that published
Emit(q) ==
  /\ events' = Append(events, [name |-> EventName(q.op), payload |-> EventPayload(q),
                               to |-> connected, by |-> q.n])
  /\ inflight' = inflight \cup {<<Len(events) + 1, c>> : c \in connected}

\* io.emit moved into a finally block
Publishes_Always(q) == TRUE

\* whether the continuation reaches io.emit: the awaited call did not throw
Publishes(q) == q.ret.ok

\* an emit that reaches nobody treated as an error
SuccessResponse_NeedsSubscribers(q) ==
  IF connected = {} THEN Respond(q.op, 500, ErrorBody(FailureMessage(q.op)))
  ELSE Respond(q.op, IF q.op = "createResult" THEN 201
                     ELSE IF q.op = "updateResult" THEN 200 ELSE 204,
               IF q.op = "deleteResult" THEN EmptyMap ELSE q.ret.value)

\* res.status(201).json(result), res.json(result), res.status(204).send()
SuccessResponse(q) ==
  CASE q.op = "createResult" -> Respond(q.op, 201, q.ret.value)
    [] q.op = "updateResult" -> Respond(q.op, 200, q.ret.value)
    [] q.op = "deleteResult" -> Respond(q.op, 204, EmptyMap)

\* the continuation after the storage call: emit and answer, or the catch block
Resume(r) ==
  /\ req[r].pc = "resume"
  /\ IF Publishes(req[r])
     THEN /\ Emit(req[r])
          /\ req' = [req EXCEPT ![r] = [@ EXCEPT !.pc = "served",
                                                 !.response = SuccessResponse(req[r])]]
     ELSE /\ req' = [req EXCEPT ![r] = Failed(req[r])]
          /\ UNCHANGED <<events, inflight>>
  /\ UNCHANGED <<options, searchFields, descriptor, pc, response, calls, request, tables,
                 started, commits, connected, inbox>>

\* the response has been written; the request is over
Done(r) ==
  /\ req[r].pc = "served"
  /\ req' = [req EXCEPT ![r] = NoRequest]
  /\ UNCHANGED <<options, searchFields, descriptor, pc, response, calls, request, tables,
                 started, commits, events, connected, inflight, inbox>>

(* ------------------------------ sockets --------------------------------- *)
\* a connection handler that replays the events published so far
Connect_Replays(c) ==
  /\ c \notin connected
  /\ connected' = connected \cup {c}
  /\ inflight' = inflight \cup {<<e, c>> : e \in 1..Len(events)}
  /\ UNCHANGED <<options, searchFields, descriptor, pc, response, calls, request, tables,
                 req, started, commits, events, inbox>>

\* io.on('connection'): a client connects; the handler only logs
Connect(c) ==
  /\ c \notin connected
  /\ connected' = connected \cup {c}
  /\ UNCHANGED <<options, searchFields, descriptor, pc, response, calls, request, tables,
                 req, started, commits, events, inflight, inbox>>

\* socket.on('disconnect'): packets not yet received by the client are lost
Disconnect(c) ==
  /\ c \in connected
  /\ connected' = connected \ {c}
  /\ inflight' = {p \in inflight : p[2] # c}
  /\ UNCHANGED <<options, searchFields, descriptor, pc, response, calls, request, tables,
                 req, started, commits, events, inbox>>

\* a client receives the oldest packet on its connection
Receive(c) ==
  /\ \E p \in inflight : p[2] = c
  /\ LET e == CHOOSE e \in 1..Len(events) :
                /\ <<e, c>> \in inflight
                /\ \A p \in inflight : p[2] = c => e <= p[1]
     IN /\ inbox' = [inbox EXCEPT ![c] = Append(@, e)]
        /\ inflight' = inflight \ {<<e, c>>}
  /\ UNCHANGED <<options, searchFields, descriptor, pc, response, calls, request, tables,
                 req, started, commits, events, connected>>

(* -------------------- concurrent requests on results -------------------- *)
\* the rows POST /api/sports and POST /api/fixtures have stored before
SeededSport ==
  [id |-> IdOf("S", 1), name |-> JsStr(<<"a">>), universityId |-> JsNull,
   type |-> JsStr(S_INDIVIDUAL)]
SeededFixture(k) ==
  [id |-> IdOf("F", k), sportId |-> JsStr(S_S1), homeTeam |-> JsStr(<<"A">>),
   awayTeam |-> JsStr(<<"b">>), date |-> JsStr(<<"d">>), venue |-> JsStr(<<"a">>),
   gender |-> JsStr(S_MALE)]

\* the server with one sport and two fixtures stored and no result yet
Seeded ==
  /\ options = NoOptions
  /\ searchFields = <<>>
  /\ descriptor = NoDescriptor
  /\ pc = "idle"
  /\ university = {}
  /\ sport = {SeededSport}
  /\ fixture = {SeededFixture(1), SeededFixture(2)}
  /\ result = {}
  /\ user = {}
  /\ nextId = [NoIds EXCEPT !.Sport = 1, !.Fixture = 2]
  /\ response = NoResponse
  /\ calls = <<>>
  /\ request = NoRequestBody

InitResults ==
  /\ Seeded
  /\ req = [r \in Slots |-> NoRequest]
  /\ started = 0
  /\ commits = <<>>
  /\ events = <<>>
  /\ connected \in SUBSET Sockets
  /\ inflight = {}
  /\ inbox = [c \in Sockets |-> <<>>]

\* the event loop runs one step of one request at a time, in any order
NextResults ==
  \E r \in Slots : Accept(r) \/ Upload(r) \/ Commit(r) \/ Resume(r) \/ Done(r)

SpecResults == InitResults /\ [][NextResults]_vars

(* ------------------- requests and sockets interleaved ------------------- *)
InitBroadcast == Seeded /\ FlowAtStart

\* the requests of these runs: one per handler and outcome
BroadcastRequests ==
  {q \in ResultRequests :
     /\ q.body.homeScore \in {JsUndefined, JsStr(<<"1">>), JsStr(<<"2">>)}
     /\ q.body.fixtureId \in {JsUndefined, JsStr(S_F1)}
     /\ q.id \in {JsUndefined, JsStr(S_R1)}
     /\ q.body.status = JsUndefined
     /\ q.body.awayScorers = JsUndefined
     /\ q.body.awayScore # JsUndefined \/ q.op = "deleteResult"
     /\ q.file \in {"none", "uploadFails"}}

AcceptOne == AcceptFrom(1, BroadcastRequests)

\* one request at a time, while clients connect, receive and disconnect
NextBroadcast ==
  \/ AcceptOne \/ Upload(1) \/ Commit(1) \/ Resume(1) \/ Done(1)
  \/ \E c \in Sockets : Connect(c) \/ Disconnect(c) \/ Receive(c)

SpecBroadcast == InitBroadcast /\ [][NextBroadcast]_vars

(* --------------------------- requests by id ----------------------------- *)
S_X1 == <<"X", "1">>
S_X2 == <<"X", "2">>

\* !value, for a value that is a row or null
IsNull(v) == "kind" \in DOMAIN v /\ v.kind = "null"

\* prisma.<model>.findUnique({ where: { id } }): the row, or null
FindUnique(rows, id) ==
  IF Stored(rows, id) THEN CHOOSE x \in rows : x.id = id ELSE JsNull

\* include: { fixtures: true, university: true }
SportWithRelations(s) ==
  s @@ [fixtures |-> {f \in fixture : f.sportId = s.id}, university |-> UniversityOf(s)]

\* include: { sport: { include: { university: true } }, result: true }
FixtureWithRelations(f) ==
  f @@ [sport |-> SportWithUniversity(CHOOSE s \in sport : s.id = f.sportId),
        result |-> IF \E x \in result : x.fixtureId = f.id
                   THEN CHOOSE x \in result : x.fixtureId = f.id ELSE JsNull]

\* include: { sport: { include: { university: true } } }
FixtureWithSportOnly(f) ==
  f @@ [sport |-> SportWithUniversity(CHOOSE s \in sport : s.id = f.sportId)]

\* the rows of the resource a by-id operation addresses
RowsOf(resource) ==
  CASE resource = "university" -> university
    [] resource = "sport" -> sport
    [] resource = "fixture" -> fixture
    [] resource = "result" -> result
    [] resource = "user" -> user

\* what GET /:id of the resource sends for a row
Fetched(resource, row) ==
  CASE resource = "university" -> UniversityWithRelations(row)
    [] resource = "sport" -> SportWithRelations(row)
    [] resource = "fixture" -> FixtureWithRelations(row)
    [] resource = "result" -> ResultWithFixture(row)
    [] resource = "user" -> UserSelected(row)

\* the ids requests address: one that is stored at the start and one that
\* never is
IdsOf(resource) ==
  CASE resource = "university" -> {JsStr(S_U1), JsStr(S_U2)}
    [] resource = "sport" -> {JsStr(S_S1), JsStr(S_S2)}
    [] resource = "fixture" -> {JsStr(S_F1), JsStr(S_F3)}
    [] resource = "result" -> {JsStr(S_R1), JsStr(S_R2)}
    [] resource = "user" -> {JsStr(S_X1), JsStr(S_X2)}

\* a handler taken as one step has answered the request on slot 1
Answered(resource, op, id, body, status, sent) ==
  /\ req[1].pc = "idle"
  /\ req' = [req EXCEPT ![1] = [NoRequest EXCEPT !.pc = "served", !.resource = resource,
                                                 !.op = op, !.id = id, !.body = body,
                                                 !.response = Respond(op, status, sent)]]
  /\ UNCHANGED <<options, searchFields, descriptor, pc, response, calls, request, nextId,
                 started, commits, events, connected, inflight, inbox>>

\* the null check left out: what findUnique returned is sent with 200
GetById_NoNullCheck(resource, notFound) ==
  \E id \in IdsOf(resource) :
    /\ Answered(resource, "get", id, EmptyMap, 200,
                IF Stored(RowsOf(resource), id)
                THEN Fetched(resource, FindUnique(RowsOf(resource), id)) ELSE JsNull)
    /\ UNCHANGED <<university, sport, fixture, result, user>>

\* GET /:id: findUnique, 404 when it returns null, else 200 with the row
GetById(resource, notFound) ==
  \E id \in IdsOf(resource) :
    /\ IF IsNull(FindUnique(RowsOf(resource), id))
       THEN Answered(resource, "get", id, EmptyMap, 404, ErrorBody(notFound))
       ELSE Answered(resource, "get", id, EmptyMap, 200,
                     Fetched(resource, FindUnique(RowsOf(resource), id)))
    /\ UNCHANGED <<university, sport, fixture, result, user>>

GetUniversity == GetById("university", "University not found")
GetSport == GetById("sport", "Sport not found")
GetFixture == GetById("fixture", "Fixture not found")
GetResult == GetById("result", "Result not found")
GetUser == GetById("user", "User not found")

\* the 500 envelope of the resource's update and delete handlers
UpdateFailed(resource) ==
  CASE resource = "university" -> "An error occurred while updating the university"
    [] resource = "sport" -> "An error occurred while updating the sport"
    [] resource = "fixture" -> "An error occurred while updating the fixture"
    [] resource = "user" -> "An error occurred while updating the user"
DeleteFailed(resource) ==
  CASE resource = "university" -> "An error occurred while deleting the university"
    [] resource = "sport" -> "An error occurred while deleting the sport"
    [] resource = "fixture" -> "An error occurred while deleting the fixture"
    [] resource = "user" -> "An error occurred while deleting the user"

\* PUT /api/universities/:id
PutUniversity ==
  \E id \in IdsOf("university"),
     in \in {<<JsUndefined, "none">>, <<JsStr(<<"B">>), "none">>,
             <<JsUndefined, "uploadFails">>} :
    LET name == in[1]
        file == in[2]
        data == [name |-> name, location |-> JsUndefined, imageUrl |-> JsUndefined]
        old == FindUnique(university, id)
        row == [id |-> id, name |-> OrDefault(data.name, old.name),
                location |-> OrDefault(data.location, old.location),
                imageUrl |-> OrDefault(data.imageUrl, old.imageUrl)]
    IN /\ IF file = "none" /\ Stored(university, id)
          THEN /\ university' = (university \ {old}) \cup {row}
               /\ Answered("university", "put", id, data, 200, UniversityWithRelations(row))
          ELSE /\ UNCHANGED university
               /\ Answered("university", "put", id, data, 500,
                           ErrorBody(UpdateFailed("university")))
       /\ UNCHANGED <<sport, fixture, result, user>>

\* PUT /api/sports/:id with { name, type }
PutSport ==
  \E id \in IdsOf("sport"),
     in \in {<<JsUndefined, JsUndefined>>, <<JsStr(<<"b">>), JsUndefined>>,
             <<JsUndefined, JsStr(<<"x">>)>>} :
    LET name == in[1]
        type == in[2]
        data == [name |-> name, type |-> type]
        old == FindUnique(sport, id)
        row == [old EXCEPT !.name = OrDefault(data.name, @),
                           !.type = OrDefault(data.type, @)]
    IN /\ IF /\ type.kind = "undefined" \/ ValidScalarFilter("SportType", type)
             /\ Stored(sport, id)
          THEN /\ sport' = (sport \ {old}) \cup {row}
               /\ Answered("sport", "put", id, data, 200, SportWithRelations(row))
          ELSE /\ UNCHANGED sport
               /\ Answered("sport", "put", id, data, 500, ErrorBody(UpdateFailed("sport")))
       /\ UNCHANGED <<university, fixture, result, user>>

\* PUT /api/sports/:id with { name, universityId }
PutSportUniversity ==
  \E id \in IdsOf("sport"), universityId \in {JsUndefined, JsStr(S_U2)} :
    LET data == [name |-> JsUndefined, universityId |-> universityId]
        old == FindUnique(sport, id)
        row == [old EXCEPT !.universityId = OrDefault(data.universityId, @)]
    IN /\ IF /\ universityId.kind = "undefined" \/ Stored(university, universityId)
             /\ Stored(sport, id)
          THEN /\ sport' = (sport \ {old}) \cup {row}
               /\ Answered("sport", "put", id, data, 200, SportWithUniversity(row))
          ELSE /\ UNCHANGED sport
               /\ Answered("sport", "put", id, data, 500, ErrorBody(UpdateFailed("sport")))
       /\ UNCHANGED <<university, fixture, result, user>>

\* new Date(date): an Invalid Date, which storage refuses, unless date is a
\* date string
NewDate(date) == IF date.kind = "str" THEN date ELSE NaN

\* PUT /api/fixtures/:id
PutFixture ==
  \E id \in IdsOf("fixture"),
     in \in {<<JsStr(<<"d">>), JsUndefined, JsUndefined>>,
             <<JsStr(<<"d">>), JsStr(<<"b">>), JsUndefined>>,
             <<JsUndefined, JsUndefined, JsUndefined>>,
             <<JsStr(<<"d">>), JsUndefined, JsStr(S_S2)>>} :
    LET date == in[1]
        venue == in[2]
        sportId == in[3]
        data == [sportId |-> sportId, homeTeam |-> JsUndefined,
                 awayTeam |-> JsUndefined, date |-> NewDate(date), venue |-> venue,
                 gender |-> JsUndefined]
        old == FindUnique(fixture, id)
        row == [old EXCEPT !.date = data.date, !.venue = OrDefault(data.venue, @),
                           !.sportId = OrDefault(data.sportId, @)]
    IN /\ IF /\ data.date.kind = "str" /\ Stored(fixture, id)
             /\ sportId.kind = "undefined" \/ Stored(sport, sportId)
          THEN /\ fixture' = (fixture \ {old}) \cup {row}
               /\ Answered("fixture", "put", id, data, 200, FixtureWithSportOnly(row))
          ELSE /\ UNCHANGED fixture
               /\ Answered("fixture", "put", id, data, 500,
                           ErrorBody(UpdateFailed("fixture")))
       /\ UNCHANGED <<university, sport, result, user>>

\* PUT /api/users/:id
PutUser ==
  \E id \in IdsOf("user"),
     in \in {<<JsUndefined, JsUndefined>>, <<JsStr(<<"b">>), JsUndefined>>,
             <<JsUndefined, JsStr(<<"x">>)>>} :
    LET name == in[1]
        role == in[2]
        data == [name |-> name, email |-> JsUndefined, role |-> role,
                 gender |-> JsUndefined, universityId |-> JsUndefined]
        old == FindUnique(user, id)
        row == [old EXCEPT !.name = OrDefault(data.name, @),
                           !.role = OrDefault(data.role, @)]
    IN /\ IF /\ role.kind = "undefined" \/ role.s \in Role
             /\ Stored(user, id)
          THEN /\ user' = (user \ {old}) \cup {row}
               /\ Answered("user", "put", id, data, 200, UserSelected(row))
          ELSE /\ UNCHANGED user
               /\ Answered("user", "put", id, data, 500, ErrorBody(UpdateFailed("user")))
       /\ UNCHANGED <<university, sport, fixture, result>>

\* a delete that no foreign key restricts
DeleteAccepts_Unrestricted(resource, id) == Stored(RowsOf(resource), id)

\* prisma.<model>.delete resolves: the row exists and no row of a required
\* relation refers to it (Fixture.sport and Result.fixture are required, so
\* their foreign keys restrict the delete)
DeleteAccepts(resource, id) ==
  /\ Stored(RowsOf(resource), id)
  /\ resource = "sport" => \A f \in fixture : f.sportId # id
  /\ resource = "fixture" => \A x \in result : x.fixtureId # id

\* the foreign key of an optional relation is set to null with the delete
SetNull(rows, id) ==
  {IF x.universityId = id THEN [x EXCEPT !.universityId = JsNull] ELSE x : x \in rows}

\* a delete that answers 204 and leaves the row in place
DeleteById_Soft(resource) ==
  \E id \in IdsOf(resource) :
    /\ UNCHANGED <<university, sport, fixture, result, user>>
    /\ IF Stored(RowsOf(resource), id)
       THEN Answered(resource, "delete", id, EmptyMap, 204, EmptyMap)
       ELSE Answered(resource, "delete", id, EmptyMap, 500, ErrorBody(DeleteFailed(resource)))

\* DELETE /:id of universities, sports, fixtures and users
DeleteById(resource) ==
  \E id \in IdsOf(resource) :
    IF DeleteAccepts(resource, id)
    THEN /\ university' = IF resource = "university"
                          THEN {x \in university : x.id # id} ELSE university
         /\ sport' = IF resource = "sport" THEN {x \in sport : x.id # id}
                     ELSE IF resource = "university" THEN SetNull(sport, id) ELSE sport
         /\ fixture' = IF resource = "fixture" THEN {x \in fixture : x.id # id} ELSE fixture
         /\ user' = IF resource = "user" THEN {x \in user : x.id # id}
                    ELSE IF resource = "university" THEN SetNull(user, id) ELSE user
         /\ UNCHANGED result
         /\ Answered(resource, "delete", id, EmptyMap, 204, EmptyMap)
    ELSE /\ UNCHANGED <<university, sport, fixture, result, user>>
         /\ Answered(resource, "delete", id, EmptyMap, 500, ErrorBody(DeleteFailed(resource)))

DeleteUniversity == DeleteById("university")
DeleteSport == DeleteById("sport")
DeleteFixture == DeleteById("fixture")
DeleteUser == DeleteById("user")

\* PUT and DELETE /api/results/:id, as the result handlers run them
ByIdResultRequests ==
  {q \in ResultRequests :
     /\ q.op # "createResult"
     /\ q.body.homeScore \in {JsUndefined, JsStr(<<"2">>)}
     /\ q.body.status = JsUndefined}
PutOrDeleteResult == AcceptFrom(1, ByIdResultRequests)

\* one stored row of every resource, as the create handlers leave them
SeededUniversity ==
  [id |-> IdOf("U", 1), name |-> JsStr(<<"A">>), location |-> JsStr(<<"b">>),
   imageUrl |-> JsNull]
SeededSportOfUniversity ==
  [id |-> IdOf("S", 1), name |-> JsStr(<<"B", "a">>), universityId |-> JsStr(S_U1),
   type |-> JsStr(S_INDIVIDUAL)]
SeededResult ==
  [id |-> IdOf("R", 1), fixtureId |-> JsStr(S_F1), homeScore |-> JsNum(1),
   awayScore |-> JsNum(0), homeScorers |-> JsArr(<<>>), awayScorers |-> JsArr(<<>>),
   status |-> JsStr(S_IN_PROGRESS), currentPeriod |-> JsNull, timeElapsed |-> JsNull,
   imageUrl |-> JsNull]
SeededUser ==
  [id |-> IdOf("X", 1), name |-> JsStr(<<"a">>), email |-> JsStr(<<"e">>),
   password |-> JsStr(<<"#", "p">>), role |-> JsStr(S_STUDENT), gender |-> JsStr(S_MALE),
   universityId |-> JsStr(S_U1)]

InitById ==
  /\ options = NoOptions
  /\ searchFields = <<>>
  /\ descriptor = NoDescriptor
  /\ pc = "idle"
  /\ university = {SeededUniversity}
  /\ sport = {SeededSportOfUniversity}
  /\ fixture = {SeededFixture(1)}
  /\ result = {SeededResult}
  /\ user = {SeededUser}
  /\ nextId = [University |-> 1, Sport |-> 1, Fixture |-> 1, Result |-> 1, User |-> 1]
  /\ response = NoResponse
  /\ calls = <<>>
  /\ request = NoRequestBody
  /\ FlowAtStart

NextById ==
  \/ GetUniversity \/ GetSport \/ GetFixture \/ GetResult \/ GetUser
  \/ PutUniversity \/ PutSport \/ PutSportUniversity \/ PutFixture \/ PutUser
  \/ DeleteUniversity \/ DeleteSport \/ DeleteFixture \/ DeleteUser
  \/ PutOrDeleteResult \/ Upload(1) \/ Commit(1) \/ Resume(1) \/ Done(1)

SpecById == InitById /\ [][NextById]_vars

(* ---------------------- the life of a university ------------------------ *)
\* universities are created, listed, fetched and deleted, starting from an
\* empty store; no request updates one
NextUniversity ==
  \/ CreateUniversity \/ ListUniversities \/ Finish
  \/ GetUniversity \/ DeleteUniversity \/ Done(1)

SpecUniversity == Init /\ [][NextUniversity]_vars

(* ------------------------ bodies storage refuses ------------------------ *)
\* PUT /api/results/R1 without a file: with scores, and with a status that
\* is no GameStatus
StatusRequests ==
  {q \in ResultRequests : q.op = "updateResult" /\ q.id = JsStr(S_R1) /\ q.file = "none"}

PutResult == AcceptFrom(1, StatusRequests)

\* creates and updates of the resources that have enum columns, and creates
\* that leave out a column, on a store with one row of every resource
NextValidation ==
  \/ CreateSport \/ CreateFixture \/ CreateUser \/ Finish
  \/ PutUser \/ PutResult \/ Commit(1) \/ Resume(1) \/ Done(1)

SpecValidation == InitById /\ [][NextValidation]_vars

(* ----------------------- every request is answered ---------------------- *)
\* requests on /api/results of every outcome: served, upload failure, a
\* scorers text that is no JSON, a body storage refuses, a missing row
AnswerRequests ==
  {q \in ResultRequests :
     /\ q.body.homeScore \in {JsUndefined, JsStr(<<"1">>), JsStr(<<"2">>)}
     /\ q.body.fixtureId \in {JsUndefined, JsStr(S_F1)}
     /\ q.id \in {JsUndefined, JsStr(S_R1)}
     /\ q.body.status = JsUndefined}

AcceptAny(r) == AcceptFrom(r, AnswerRequests)

NextAnswers ==
  \/ \E r \in Slots : AcceptAny(r) \/ Upload(r) \/ Commit(r) \/ Resume(r) \/ Done(r)
  \/ GetResult

\* the promises a handler awaits settle (the upload and the storage call
\* return or throw), and the event loop runs the continuation of a settled
\* promise
Settling == \A r \in Slots : WF_vars(Upload(r)) /\ WF_vars(Commit(r)) /\ WF_vars(Resume(r))

SpecAnswers == InitBroadcast /\ [][NextAnswers]_vars /\ Settling

(* ------------------------- the six list handlers ------------------------- *)
\* every list handler serves requests on a store that holds one row of each
\* resource, from which universities and users are deleted meanwhile
NextLists ==
  \/ ListUniversities \/ ListSports \/ ListSportsWithUniversity
  \/ ListFixtures \/ ListResults \/ ListUsers \/ Finish
  \/ DeleteUniversity \/ DeleteUser \/ Done(1)

SpecLists == InitById /\ [][NextLists]_vars

(* ------------------- creating, reading and deleting --------------------- *)
\* universities and results are created, listed, fetched and deleted, one
\* request at a time, on a server that has a sport and two fixtures
NextLifecycle ==
  \/ NextUniversity
  \/ AcceptOne \/ Upload(1) \/ Commit(1) \/ Resume(1)
  \/ GetResult \/ ListResults

SpecLifecycle == InitBroadcast /\ [][NextLifecycle]_vars

(* ------------- sports, fixtures and results created and deleted ---------- *)
\* creates and deletes of results, without image
IntegrityRequests ==
  {q \in ResultRequests :
     /\ q.op \in {"createResult", "deleteResult"}
     /\ q.file = "none"
     /\ q.body.homeScore \in {JsUndefined, JsStr(<<"1">>)}
     /\ q.body.awayScore # JsUndefined \/ q.op = "deleteResult"
     /\ q.body.awayScorers = JsUndefined}
PostOrDeleteResult == AcceptFrom(2, IntegrityRequests)

\* the routers of sports and fixtures answer on slot 1 while a request to
\* the results router is in progress on slot 2
NextIntegrity ==
  \/ CreateSport \/ CreateFixture \/ Finish
  \/ PutFixture \/ DeleteSport \/ DeleteFixture \/ Done(1)
  \/ PostOrDeleteResult \/ Commit(2) \/ Resume(2) \/ Done(2)

SpecIntegrity == InitById /\ [][NextIntegrity]_vars

(* --------------------- result requests with an image --------------------- *)
\* creates and updates of results, each without an image, with an image whose
\* upload returns, and with one whose upload throws
ImageRequests ==
  {[q EXCEPT !.file = file] :
     q \in {x \in ResultRequests :
              /\ x.op \in {"createResult", "updateResult"}
              /\ x.body.homeScore \in {JsStr(<<"1">>), JsStr(<<"2">>)}
              /\ x.body.fixtureId \in {JsUndefined, JsStr(S_F1)}
              /\ x.id \in {JsUndefined, JsStr(S_R1)}
              /\ x.body.status = JsUndefined
              /\ x.body.homeScorers = JsUndefined
              /\ x.body.awayScorers = JsUndefined},
     file \in {"none", "uploaded", "uploadFails"}}
AcceptImage(r) == AcceptFrom(r, ImageRequests)

\* two requests to the results router in progress at a time, while clients
\* of the socket server come and go
NextImages ==
  \/ \E r \in Slots : AcceptImage(r) \/ Upload(r) \/ Commit(r) \/ Resume(r) \/ Done(r)
  \/ \E c \in Sockets : Connect(c) \/ Disconnect(c)

SpecImages == InitBroadcast /\ [][NextImages]_vars

(* --------------------- users and their universities ---------------------- *)
\* the user handlers and the university handlers, whose responses embed the
\* users of a university
NextUsers ==
  \/ CreateUser \/ ListUsers \/ ListUniversities \/ Finish
  \/ GetUser \/ PutUser \/ GetUniversity \/ Done(1)

SpecUsers == InitById /\ [][NextUsers]_vars


(* ----------------------- claims on the builder ------------------------- *)
RECURSIVE Pow10(_)
Pow10(k) == IF k = 0 THEN 1 ELSE 10 * Pow10(k - 1)

SignedDigits(cs) == cs # <<>> /\ \A k \in 1..Len(cs) : IsDigit(cs[k]) \/ cs[k] = "-"

\* the integers an input stands for: the number itself, or the integer whose
\* decimal rendering the string is
IntegersOf(v) ==
  CASE v.kind = "num" -> {v.n}
    [] v.kind = "str" /\ SignedDigits(v.s) ->
         LET len == Len(v.s)
             range == IF Head(v.s) = "-" THEN (1 - Pow10(len - 1))..(-1)
                      ELSE (IF len = 1 THEN 0 ELSE Pow10(len - 1))..(Pow10(len) - 1)
         IN {i \in range : toString(JsNum(i)) = v.s}
    [] OTHER -> {}

Returned == pc = "ret"

C2_NonNegativeSkip ==
  (Returned /\ (options.page.kind = "undefined" \/ IntegersOf(options.page) # {})
            /\ (options.limit.kind = "undefined" \/ IntegersOf(options.limit) # {})) =>
    /\ descriptor.skip.kind = "num" /\ descriptor.skip.n >= 0
    /\ descriptor.take.kind = "num" /\ descriptor.take.n >= 1

\* C3: an absent page counts as page 1 and an absent limit as limit 10, so
\* the empty request gets skip 0 and take 10 whatever the searchable fields.
C3_Defaults ==
  Returned =>
    /\ options.limit.kind = "undefined" => descriptor.take = JsNum(10)
    /\ (options.page.kind = "undefined" /\ descriptor.take.kind = "num") =>
         descriptor.skip = JsNum(0)
    /\ options.limit.kind = "undefined" =>
         \A p \in IntegersOf(options.page) :
           p # 0 => descriptor.skip = JsNum((p - 1) * 10)
    /\ options = NoOptions => descriptor.skip = JsNum(0) /\ descriptor.take = JsNum(10)

C3_Witness ==
  /\ Returned
  /\ options = NoOptions
  /\ Len(searchFields) = 2
  /\ descriptor.skip = JsNum(0)
  /\ descriptor.take = JsNum(10)

AbsentOrEmpty(v) == v.kind = "undefined" \/ v = JsStr(<<>>)
Present(v) == v.kind = "str" /\ v.s # <<>>

\* the where key each filter of the request writes
FilterKey ==
  [search |-> "OR", gender |-> "gender", role |-> "role",
   sportId |-> "sportId", universityId |-> "sport"]

\* C4: where has exactly one top-level key per filter that is present (given
\* with a non-empty value), none for an absent one, each key holding what its
\* own filter alone determines; the empty request gets the empty where.
C4_WhereConjunction ==
  Returned =>
    /\ DOMAIN descriptor.where =
         {FilterKey[f] : f \in {g \in DOMAIN FilterKey : Present(options[g])}}
    /\ Present(options.search) =>
         descriptor.where["OR"] = SearchOr(options.search, searchFields)
    /\ \A f \in {"gender", "role", "sportId"} :
         Present(options[f]) => descriptor.where[f] = options[f]
    /\ Present(options.universityId) =>
         descriptor.where["sport"] = [universityId |-> options.universityId]
    /\ options = NoOptions => descriptor.where = EmptyMap

C4_Witness ==
  /\ Returned
  /\ Present(options.search) /\ Present(options.gender) /\ Present(options.universityId)
  /\ AbsentOrEmpty(options.role) /\ AbsentOrEmpty(options.sportId)
  /\ DOMAIN descriptor.where = {"OR", "gender", "sport"}

\* rows of String columns the search predicate is tried on
SampleValues == {JsStr(<<"b">>), JsStr(<<"A">>), JsStr(<<"b", "A", "B">>), JsStr(<<"B", "a">>)}
SampleRows == [FieldNames -> SampleValues]

\* cs has needle at some offset, letters compared without case
HasAtSomeOffset(cs, needle) ==
  \E k \in 0..(Len(cs) - Len(needle)) :
    \A j \in 1..Len(needle) : LowerChar(cs[k + j]) = LowerChar(needle[j])

\* C5: a non-empty search yields a disjunction with one case-insensitive
\* substring predicate per searchable field, in the order of searchFields,
\* each on the search string; a row satisfies it iff one of those fields
\* contains the search string ignoring case.
C5_SearchDisjunction ==
  (Returned /\ Present(options.search)) =>
    /\ "OR" \in DOMAIN descriptor.where
    /\ Len(descriptor.where["OR"]) = Len(searchFields)
    /\ \A i \in 1..Len(searchFields) :
         /\ descriptor.where["OR"][i].field = searchFields[i]
         /\ descriptor.where["OR"][i].contains = options.search
         /\ descriptor.where["OR"][i].mode = S_insensitive
    /\ \A row \in SampleRows :
         MatchesOr(row, descriptor.where["OR"])
           <=> \E i \in 1..Len(searchFields) :
                 HasAtSomeOffset(row[searchFields[i]].s, options.search.s)

C5_Witness ==
  /\ Returned
  /\ options.search = JsStr(<<"A", "b">>)
  /\ searchFields = <<"name", "location">>
  /\ Len(descriptor.where["OR"]) = 2
  /\ \E row \in SampleRows :
       /\ row.name = JsStr(<<"b">>) /\ row.location = JsStr(<<"b", "A", "B">>)
       /\ MatchesOr(row, descriptor.where["OR"])
  /\ \E row \in SampleRows :
       /\ row.homeTeam = JsStr(<<"b", "A", "B">>)
       /\ ~MatchesOr(row, descriptor.where["OR"])

\* C6: search = "" gives the descriptor of the same request without the
\* search key, with no disjunction in where.
C6_EmptySearchAbsent ==
  (Returned /\ options.search = JsStr(<<>>)) =>
    /\ descriptor = buildQueryOptions([options EXCEPT !.search = JsUndefined], searchFields)
    /\ "OR" \notin DOMAIN descriptor.where

C6_Witness ==
  /\ Returned
  /\ options.search = JsStr(<<>>)
  /\ Present(options.gender)
  /\ searchFields # <<>>
  /\ DOMAIN descriptor.where = {"gender"}

\* C7: a present gender, role or sportId constrains the field of the same
\* name to the given value itself, a plain string and no pattern.
C7_ExactMatch ==
  Returned =>
    \A f \in {"gender", "role", "sportId"} :
      Present(options[f]) =>
        /\ f \in DOMAIN descriptor.where
        /\ descriptor.where[f].kind = "str"
        /\ descriptor.where[f].s = options[f].s

C7_Witness ==
  /\ Returned
  /\ options.gender = JsStr(S_MALE) /\ options.role = JsStr(S_ADMIN)
  /\ options.sportId = JsStr(S_S1)
  /\ descriptor.where["gender"] = JsStr(S_MALE)
  /\ descriptor.where["role"] = JsStr(S_ADMIN)
  /\ descriptor.where["sportId"] = JsStr(S_S1)

\* C8: a present universityId constrains the nested sport.universityId and
\* where never gets a direct universityId key, whatever the caller's fields.
C8_NestedUniversity ==
  Returned =>
    /\ "universityId" \notin DOMAIN descriptor.where
    /\ Present(options.universityId) =>
         /\ "sport" \in DOMAIN descriptor.where
         /\ descriptor.where["sport"] = [universityId |-> options.universityId]

C8_Witness ==
  /\ Returned
  /\ options.universityId = JsStr(S_U1)
  /\ searchFields = <<"name">>
  /\ descriptor.where["sport"] = [universityId |-> JsStr(S_U1)]

\* C10: orderBy is {sortBy: sortOrder} when sortBy is present, 'asc' standing
\* in for an absent sortOrder, and empty when sortBy is absent, also when
\* only sortOrder is given.
C10_OrderBy ==
  Returned =>
    /\ Present(options.sortBy) =>
         /\ DOMAIN descriptor.orderBy = {options.sortBy.s}
         /\ descriptor.orderBy[options.sortBy.s] =
              IF AbsentOrEmpty(options.sortOrder) THEN JsStr(S_asc) ELSE options.sortOrder
    /\ AbsentOrEmpty(options.sortBy) => descriptor.orderBy = EmptyMap

C10_Witness ==
  /\ Returned
  /\ options.sortBy = JsStr(S_name)
  /\ options.sortOrder = JsUndefined
  /\ descriptor.orderBy = (S_name :> JsStr(S_asc))

C10_WitnessSortOrderOnly ==
  /\ Returned
  /\ options.sortBy = JsUndefined
  /\ options.sortOrder = JsStr(S_desc)
  /\ descriptor.orderBy = EmptyMap

(* -------------------- claims on the list handlers ---------------------- *)
\* the request filters by university only and pages from page 1 on
UniversityRequest ==
  /\ pc = "served"
  /\ Present(options.universityId)
  /\ \A f \in {"search", "gender", "role", "sportId", "sortBy"} : options[f] = JsUndefined
  /\ options.page.kind = "undefined" \/ \E p \in IntegersOf(options.page) : p >= 1

SportsOfUniversity(u) == {s \in sport : s.universityId = u}

FixturesOfUniversity(u) ==
  {f \in fixture : \E s \in sport : s.id = f.sportId /\ s.universityId = u}

RowIds(data) == {data[i].id : i \in 1..Len(data)}

\* the response is 200 with a page of exactly the expected rows
AnswersWithPageOf(expected) ==
  /\ response.status = 200
  /\ response.body.total = Cardinality(expected)
  /\ RowIds(response.body.data) \subseteq {r.id : r \in expected}
  /\ Len(response.body.data) =
       Min(descriptor.take.n, Max(0, Cardinality(expected) - descriptor.skip.n))
  /\ Cardinality(RowIds(response.body.data)) = Len(response.body.data)

\* C9 as stated: listing sports with universityId = U answers 200 with the
\* sports whose universityId is U, and listing fixtures with universityId = U
\* answers 200 with the fixtures whose sport has universityId U.
C9_UniversityFilterBothContexts ==
  UniversityRequest =>
    /\ response.op \in {"listSports", "listSportsWithUniversity"} =>
         AnswersWithPageOf(SportsOfUniversity(options.universityId))
    /\ response.op = "listFixtures" =>
         AnswersWithPageOf(FixturesOfUniversity(options.universityId))

\* the fixture half of C9 alone
C9_FixtureContext ==
  (UniversityRequest /\ response.op = "listFixtures") =>
    AnswersWithPageOf(FixturesOfUniversity(options.universityId))

C9_FixtureContextReached ==
  /\ UniversityRequest /\ response.op = "listFixtures"
  /\ Cardinality(fixture) = 2
  /\ Len(response.body.data) = 1
  /\ response.body.total = 1

\* the sport half of C9 as the code has it: the request is refused
C9_SportContextRefused ==
  (UniversityRequest /\ response.op \in {"listSports", "listSportsWithUniversity"}) =>
    response.status = 500

(* ---------------------------------------------------------------------- *)
SameArguments(a, b) == a.options = b.options /\ a.searchFields = b.searchFields

Answers(r, op, status) ==
  /\ req[r].pc = "resume"
  /\ req[r].op = op
  /\ req'[r].pc = "served"
  /\ req'[r].response.status = status

\* the entry the write of request n left in the commit log
CommitOf(n) == commits[CHOOSE k \in 1..Len(commits) : commits[k].n = n]

\* the events published for the write of request n
EventsBy(n) == {k \in 1..Len(events) : events[k].by = n}

\* this step publishes exactly one event, to every socket connected now
PublishesOne(name, payload) ==
  /\ Len(events') = Len(events) + 1
  /\ SubSeq(events', 1, Len(events)) = events
  /\ events'[Len(events')].name = name
  /\ events'[Len(events')].payload = payload
  /\ events'[Len(events')].to = connected
  /\ inflight' \ inflight = {<<Len(events'), c>> : c \in connected}

\* the commit log tells what storage holds: the row of the latest write to
\* an id is the stored row, and an id whose latest write is a delete is gone
LatestWrite(id) ==
  CHOOSE k \in 1..Len(commits) :
    /\ commits[k].id = id
    /\ \A j \in 1..Len(commits) : commits[j].id = id => j <= k

CommitLogIsStorage ==
  /\ \A x \in result : \E k \in 1..Len(commits) : commits[k].id = x.id
  /\ \A k \in 1..Len(commits) :
       LET last == commits[LatestWrite(commits[k].id)]
       IN IF last.op = "deleteResult"
          THEN \A x \in result : x.id # last.id
          ELSE ResultWithFixture(CHOOSE x \in result : x.id = last.id) = last.row

\* C12: the step in which a create answers 201 or an update answers 200
\* publishes exactly one resultUpdate event to all sockets connected at that
\* moment, with the Result as stored by that write, fixture included, as its
\* payload; no write ever has a second event.
C12_ResultUpdateEvent ==
  /\ [][\A r \in Slots :
          Answers(r, "createResult", 201) \/ Answers(r, "updateResult", 200)
            => /\ PublishesOne("resultUpdate", CommitOf(req[r].n).row)
               /\ "fixture" \in DOMAIN CommitOf(req[r].n).row]_vars
  /\ [](CommitLogIsStorage /\ \A n \in 1..MaxRequests : Cardinality(EventsBy(n)) <= 1)

\* an update has answered 200 and its event went to both connected sockets
C12_Witness ==
  /\ req[1].pc = "served" /\ req[1].op = "updateResult"
  /\ req[1].response.status = 200
  /\ connected = Sockets
  /\ events # <<>>
  /\ events[Len(events)].by = req[1].n
  /\ events[Len(events)].to = Sockets
  /\ events[Len(events)].payload.homeScore = JsNum(2)
  /\ events[Len(events)].payload.fixture.id = JsStr(S_F1)

\* C13: the step in which a delete answers 204 publishes exactly one
\* resultDelete event to all sockets connected at that moment, and its payload
\* is the id of the deleted Result, a string, and nothing else.
C13_ResultDeleteEvent ==
  [][Answers(1, "deleteResult", 204)
       => /\ PublishesOne("resultDelete", CommitOf(req[1].n).id)
          /\ events'[Len(events')].payload.kind = "str"
          /\ Cardinality(EventsBy(req[1].n)') = 1
          /\ \A x \in result : x.id # events'[Len(events')].payload]_vars

\* a delete has answered 204 and its event went to a connected socket
C13_Witness ==
  /\ req[1].pc = "served" /\ req[1].op = "deleteResult"
  /\ req[1].response.status = 204
  /\ events # <<>>
  /\ events[Len(events)].by = req[1].n
  /\ events[Len(events)].to # {}
  /\ events[Len(events)].payload = JsStr(S_R1)

\* the write of request n is in the commit log
HasCommitted(n) == \E j \in 1..Len(commits) : commits[j].n = n

\* C14: every published event belongs to a write that is in the commit log
\* of storage and is of that write's kind; a request that has not reached or
\* not passed its storage call has no event; and a request answered with the
\* 500 envelope has neither a committed write nor an event.
C14_EventOnlyAfterCommit ==
  /\ \A k \in 1..Len(events) :
       /\ HasCommitted(events[k].by)
       /\ events[k].name = IF CommitOf(events[k].by).op = "deleteResult"
                           THEN "resultDelete" ELSE "resultUpdate"
  /\ \A r \in Slots :
       /\ req[r].pc \in {"upload", "write", "resume"} => EventsBy(req[r].n) = {}
       /\ req[r].pc = "served" /\ req[r].response.status = 500
            => ~HasCommitted(req[r].n) /\ EventsBy(req[r].n) = {}

\* a create refused for the unique fixtureId has answered 500 while the other
\* request's write is committed and its event not yet published
C14_Witness ==
  \E r \in Slots : \E o \in Slots \ {r} :
    /\ req[r].pc = "served" /\ req[r].op = "createResult"
    /\ req[r].response.status = 500
    /\ \E x \in result : x.fixtureId = req[r].body.fixtureId
    /\ req[o].pc = "resume" /\ req[o].ret.ok /\ HasCommitted(req[o].n)
    /\ EventsBy(req[o].n) = {}

\* the write of request n as the table shows it
WriteKept(n) ==
  IF CommitOf(n).op = "deleteResult"
  THEN \A x \in result : x.id # CommitOf(n).id
  ELSE \E x \in result : ResultWithFixture(x) = CommitOf(n).row

CommitIndex(n) == CHOOSE k \in 1..Len(commits) : commits[k].n = n

\* C16: events are published in the order in which their writes committed.
C16_EventsInCommitOrder ==
  \A i \in 1..Len(events) : \A j \in 1..Len(events) :
    i < j => CommitIndex(events[i].by) < CommitIndex(events[j].by)

\* C17: a socket receives an event at most once and only if it was connected
\* when the event was published; a packet is in flight only to such a socket
\* still connected; connecting puts nothing in flight and delivers nothing;
\* and the step that answers a request leaves its event's packets in flight,
\* no socket having received it.
C17_AtMostOnceNoReplay ==
  /\ [](\A c \in Sockets :
          /\ \A i \in 1..Len(inbox[c]) : \A j \in 1..Len(inbox[c]) :
               i # j => inbox[c][i] # inbox[c][j]
          /\ \A i \in 1..Len(inbox[c]) : c \in events[inbox[c][i]].to
          /\ \A e \in 1..Len(events) :
               <<e, c>> \in inflight
                 => /\ c \in events[e].to /\ c \in connected
                    /\ \A i \in 1..Len(inbox[c]) : inbox[c][i] # e)
  /\ [][\A c \in Sockets :
          c \notin connected /\ c \in connected'
            => inflight' = inflight /\ inbox' = inbox]_vars
  /\ [][req[1].pc = "resume" /\ req'[1].pc = "served" /\ Len(events') > Len(events)
          => /\ inbox' = inbox
             /\ \A c \in connected : <<Len(events'), c>> \in inflight']_vars

\* socket 1 has received the one event, published while it alone was
\* connected; socket 2 connected afterwards and has and awaits nothing
C17_Witness ==
  /\ Len(events) = 1
  /\ events[1].to = {1}
  /\ inbox[1] = <<1>>
  /\ connected = {1, 2}
  /\ inbox[2] = <<>>
  /\ inflight = {}

\* C20: no fixture ever has two results; a create whose fixture already has
\* a result when storage executes it is refused and leaves the table as it
\* is; and a refused create answers 500 and has no event.
C20_OneResultPerFixture ==
  /\ [](\A f \in fixture : Cardinality({x \in result : x.fixtureId = f.id}) <= 1)
  /\ [][\A r \in Slots :
          /\ req[r].pc = "write" /\ req[r].op = "createResult"
          /\ req'[r].pc = "resume"
          /\ \E x \in result : x.fixtureId = req[r].body.fixtureId
          => result' = result /\ ~req'[r].ret.ok]_vars
  /\ [](\A r \in Slots :
          req[r].op = "createResult" /\ ~req[r].ret.ok
            => /\ EventsBy(req[r].n) = {}
               /\ req[r].pc = "served" => req[r].response.status = 500)
  /\ [](\A n \in 1..MaxRequests : EventsBy(n) # {} => HasCommitted(n))

\* two creates for fixture F1 were in progress together: the one accepted
\* first was executed second and refused, the other one has answered 201
C20_Witness ==
  /\ req[1].op = "createResult" /\ req[2].op = "createResult"
  /\ req[1].body.fixtureId = JsStr(S_F1) /\ req[2].body.fixtureId = JsStr(S_F1)
  /\ req[1].n < req[2].n
  /\ req[1].pc = "served" /\ req[1].response.status = 500
  /\ req[1].file = "none" /\ req[1].body.homeScore = JsStr(<<"1">>)
  /\ req[1].body.awayScorers = JsUndefined
  /\ req[2].pc = "served" /\ req[2].response.status = 201
  /\ Cardinality(result) = 1

\* a handler taken as one step answers a by-id request in this step
AnswersById(ops) ==
  /\ req[1].pc = "idle"
  /\ req'[1].pc = "served"
  /\ req'[1].op \in ops

\* the continuation of PUT or DELETE /api/results/:id answers in this step
AnswersResultById ==
  /\ req[1].pc = "resume"
  /\ req'[1].pc = "served"
  /\ req[1].op \in {"updateResult", "deleteResult"}

\* the response of the step is the 404 envelope
NotFoundSent ==
  /\ req'[1].response.status = 404
  /\ DOMAIN req'[1].response.body = {"error"}

\* a PUT or DELETE answers in this step and no row had the id it names when
\* storage was asked (for results: the storage call failed, so the table is
\* as it was then)
MissingIdAddressed ==
  \/ AnswersById({"put", "delete"}) /\ ~Stored(RowsOf(req'[1].resource), req'[1].id)
  \/ AnswersResultById /\ ~req[1].ret.ok /\ ~Stored(result, req[1].id)

\* C18: a PUT or DELETE of any resource on an id that is not stored answers
\* 404 with an {error} body and leaves every table as it is.
C18_NotFoundOnPutDelete ==
  [][MissingIdAddressed => (NotFoundSent /\ UNCHANGED tables)]_vars

\* the columns an entity is sent with: all of them, a user without password
SentColumns(resource, row) ==
  IF resource = "user" THEN DOMAIN row \ {"password"} ELSE DOMAIN row

\* C19: GET /:id of any resource answers 404 with an {error} body when no
\* row has the id and 200 with the columns of the row that has it otherwise,
\* and leaves every table as it is.
C19_FetchById ==
  [][AnswersById({"get"})
       => /\ UNCHANGED tables
          /\ IF Stored(RowsOf(req'[1].resource), req'[1].id)
             THEN /\ req'[1].response.status = 200
                  /\ req'[1].response.body.id = req'[1].id
                  /\ LET row == CHOOSE x \in RowsOf(req'[1].resource) : x.id = req'[1].id
                     IN \A k \in SentColumns(req'[1].resource, row) :
                          req'[1].response.body[k] = row[k]
             ELSE NotFoundSent]_vars

\* the result R1, stored at the start, has been deleted and a fetch of it
\* has answered 404
C19_Witness ==
  /\ req[1].pc = "served" /\ req[1].op = "get"
  /\ req[1].resource = "result" /\ req[1].id = JsStr(S_R1)
  /\ result = {}
  /\ req[1].response.status = 404
  /\ req[1].response.body = ErrorBody("Result not found")

(* ------------------------- claims on the writes -------------------------- *)
\* the columns of a Result a PUT body can name
UpdateKeys == BodyKeys \ {"fixtureId"}

\* the update of slot r commits in this step
UpdateCommits(r) ==
  /\ req[r].pc = "write" /\ req[r].op = "updateResult"
  /\ req'[r].pc = "resume" /\ req'[r].ret.ok

\* C21: a PUT on a Result that succeeds leaves every column the body omits
\* (timeElapsed, homeScorers, awayScorers and the others) at its stored
\* value, and the image as it is when no file is sent.
C21_OmittedFieldsKept ==
  [][\A r \in Slots :
       UpdateCommits(r)
         => LET old == FindUnique(result, req[r].id)
                new == FindUnique(result', req[r].id)
            IN /\ \A k \in UpdateKeys :
                    req[r].body[k] = JsUndefined => new[k] = old[k]
               /\ req[r].file = "none" => new.imageUrl = old.imageUrl]_vars

(* ------------------------ claims on the envelope ------------------------- *)
ListOps == {"listSports", "listSportsWithUniversity", "listFixtures",
            "listUniversities", "listResults", "listUsers"}

\* the model a list handler queries
ModelOf(op) ==
  CASE op = "listFixtures" -> "Fixture"
    [] op = "listUniversities" -> "University"
    [] op = "listResults" -> "Result"
    [] op = "listUsers" -> "User"
    [] OTHER -> "Sport"

\* a list request has been answered with the envelope
Listed == pc = "served" /\ response.op \in ListOps /\ response.status = 200

\* C22: in every list response page and limit are the integers the builder
\* computed skip and take from (1 and 10 when absent), and total is the
\* number of rows matching the where of the request.
C22_EnvelopeIntegers ==
  Listed =>
    /\ response.body.page = PageOf(options)
    /\ response.body.limit = LimitOf(options)
    /\ response.body.total =
         Cardinality(Matching(ModelOf(response.op), descriptor.where))

(* ----------------------- claims on the life cycle ------------------------ *)
\* POST /api/universities has answered 201 and the client holds the response
UniversityCreated ==
  pc = "served" /\ response.op = "createUniversity" /\ response.status = 201

\* GET /api/universities/:id of the id just returned has answered 200
CreatedUniversityFetched ==
  /\ UniversityCreated
  /\ req[1].pc = "served" /\ req[1].op = "get" /\ req[1].resource = "university"
  /\ req[1].id = response.body.id
  /\ req[1].response.status = 200

\* C23: the response of a university create carries the submitted name and
\* location, and a fetch of the returned id, no update having been made,
\* answers with the same name, location and imageUrl as the create did.
C23_CreateFetchRoundTrip ==
  /\ UniversityCreated =>
       /\ response.body.name = request.body.name
       /\ response.body.location = request.body.location
  /\ CreatedUniversityFetched =>
       \A k \in {"name", "location", "imageUrl"} :
         req[1].response.body[k] = response.body[k]

\* a university created with an image has been fetched
C23_Witness ==
  /\ CreatedUniversityFetched
  /\ request.file = "uploaded"
  /\ req[1].response.body.imageUrl = JsStr(<<"i">>)
  /\ req[1].response.body.name = JsStr(<<"A">>)

\* the resources, the letter their ids start with and their id counter
Resources == {"university", "sport", "fixture", "result", "user"}
IdLetter ==
  [university |-> "U", sport |-> "S", fixture |-> "F", result |-> "R", user |-> "X"]
IssuedOf(resource, issued) ==
  CASE resource = "university" -> issued.University
    [] resource = "sport" -> issued.Sport
    [] resource = "fixture" -> issued.Fixture
    [] resource = "result" -> issued.Result
    [] resource = "user" -> issued.User

\* the ids of a resource that were assigned at a create and whose entity a
\* DELETE has removed since: issued, and no longer stored
Gone(resource, rows, issued) ==
  {id \in {IdOf(IdLetter[resource], k) : k \in 1..IssuedOf(resource, issued)} :
     ~Stored(rows, id)}

Deleted(resource) == Gone(resource, RowsOf(resource), nextId)

\* the resource a list handler lists
ListedResource(op) ==
  CASE op = "listFixtures" -> "fixture"
    [] op = "listUniversities" -> "university"
    [] op = "listResults" -> "result"
    [] op = "listUsers" -> "user"
    [] OTHER -> "sport"

\* a list request is answered with an envelope in this step
ListAnswers ==
  pc = "idle" /\ pc' = "served" /\ response'.op \in ListOps /\ response'.status = 200

\* a DELETE answers 204 in this step
DeleteAnswers ==
  /\ \/ AnswersById({"delete"})
     \/ AnswersResultById /\ req[1].op = "deleteResult"
  /\ req'[1].response.status = 204

\* C24: a DELETE that answers 204 has removed the entity; from then on its
\* id stays without an entity (no create is given the id again), every GET
\* of the id answers 404 and no list response contains an entity with the id.
C24_DeletionIsHard ==
  [][/\ DeleteAnswers =>
          \A res \in Resources :
            req'[1].resource = res => req'[1].id \in Gone(res, RowsOf(res)', nextId')
     /\ \A res \in Resources :
          /\ Deleted(res) \subseteq Gone(res, RowsOf(res)', nextId')
          /\ \A x \in RowsOf(res)' \ RowsOf(res) :
               Stored(RowsOf(res), x.id) \/ x.id \notin Deleted(res)
     /\ (AnswersById({"get"}) /\ req'[1].id \in Deleted(req'[1].resource))
          => NotFoundSent
     /\ ListAnswers =>
          RowIds(response'.body.data) \cap Deleted(ListedResource(response'.op)) = {}]_vars

\* the university U1 was created and deleted (204), another one was created
\* since under a new id, and a GET of U1 has answered 404
C24_Witness ==
  /\ JsStr(S_U1) \in Deleted("university")
  /\ \E u \in university : u.id = JsStr(S_U2)
  /\ req[1].pc = "served" /\ req[1].op = "get" /\ req[1].resource = "university"
  /\ req[1].id = JsStr(S_U1)
  /\ req[1].response.status = 404

\* the result R1 was created and deleted, and a list of the results has
\* answered since without it
C24_WitnessResult ==
  /\ JsStr(S_R1) \in Deleted("result")
  /\ pc = "served" /\ response.op = "listResults" /\ response.status = 200
  /\ response.body.total = 0

Stage(p) ==
  CASE p = "idle" -> 0
    [] p = "upload" -> 1
    [] p = "write" -> 2
    [] p = "resume" -> 3
    [] p = "served" -> 4

\* the handler of slot r sends its response in this step
AnswersOn(r) == req[r].pc # "served" /\ req'[r].pc = "served"

\* something threw while the request of slot r was handled: the upload, the
\* JSON.parse of a scorers field, or the storage call
RaisedOn(r) ==
  \/ req[r].pc = "upload" /\ req[r].file = "uploadFails"
  \/ /\ req'[r].op \in {"createResult", "updateResult"}
     /\ DataThrows(DataOf(req'[r]))
  \/ req[r].pc = "resume" /\ ~req[r].ret.ok

\* the writes storage has committed for request n
WritesOf(n) == {i \in 1..Len(commits) : commits[i].n = n}

\* C26: every request is answered, and answered once: a handler never goes
\* back to an earlier point (a storage call is not made again), a response
\* once sent is not followed by another, a request during which something
\* threw is answered 500 with the handler's {error} message and has written
\* nothing, and every other request is answered 200, 201, 204 or 404.
C26_AnsweredExactlyOnce ==
  /\ [][\A r \in Slots :
          /\ req'[r] = NoRequest \/ Stage(req'[r].pc) >= Stage(req[r].pc)
          /\ req[r].pc = "served" => req'[r] \in {req[r], NoRequest}
          /\ AnswersOn(r) =>
               IF RaisedOn(r)
               THEN /\ req'[r].response =
                         Respond(req'[r].op, 500, ErrorBody(FailureMessage(req'[r].op)))
                    /\ WritesOf(req'[r].n) = {}
                    /\ UNCHANGED tables
               ELSE req'[r].response.status \in {200, 201, 204, 404}]_vars
  /\ [](\A n \in 1..MaxRequests : Cardinality(WritesOf(n)) <= 1)
  /\ \A r \in Slots : (req[r].pc # "idle") ~> (req[r].pc = "served")

\* a second create for fixture F1 was refused by storage and answered 500;
\* the result of the first create is stored as it was
C26_Witness ==
  /\ \E r \in Slots :
       /\ req[r].pc = "served" /\ req[r].op = "createResult"
       /\ req[r].response.status = 500
       /\ req[r].file = "none"
       /\ ~DataThrows(DataOf(req[r]))
       /\ req[r].n = 2
  /\ Len(commits) = 1 /\ commits[1].op = "createResult"
  /\ Cardinality(result) = 1

(* ------------------------- claims on validation -------------------------- *)
\* the model each create handler writes to, and the model of a resource
CreatedModel ==
  [createUniversity |-> "University", createSport |-> "Sport",
   createSportForUniversity |-> "Sport", createFixture |-> "Fixture",
   createUser |-> "User"]
ModelName ==
  [university |-> "University", sport |-> "Sport", fixture |-> "Fixture",
   result |-> "Result", user |-> "User"]

\* the columns of a model that a create must be given: not optional, without
\* a default, not a list
Required ==
  [University |-> {"name", "location"},
   Sport |-> {"name"},
   Fixture |-> {"sportId", "homeTeam", "awayTeam", "date", "venue", "gender"},
   Result |-> {"fixtureId", "homeScore", "awayScore"},
   User |-> {"name", "email", "password", "gender"}]

EnumColumns(model) == {k \in DOMAIN Columns[model] : Columns[model][k] \in DOMAIN Enums}

\* the body gives an enum column a value that is not of the enum
OutOfSet(model, body) ==
  \E k \in EnumColumns(model) \cap DOMAIN body :
    body[k] # JsUndefined /\ ~ValidScalarFilter(Columns[model][k], body[k])

\* the body leaves out a required column
Lacks(model, body) ==
  \E k \in Required[model] : k \notin DOMAIN body \/ body[k] = JsUndefined

\* a create handler answers in this step
CreateAnswers ==
  pc = "idle" /\ pc' = "served" /\ response'.op \in DOMAIN CreatedModel

\* the 500 envelope
Refused(resp) == resp.status = 500 /\ DOMAIN resp.body = {"error"}

\* every enum column of every stored row holds a value of its enum
EnumsInSet ==
  \A model \in DOMAIN Columns : \A row \in Table(model) : \A k \in EnumColumns(model) :
    ValidScalarFilter(Columns[model][k], row[k])

\* what holds of creates, and of updates with an out-of-set enum value
RefusesInvalid ==
  /\ (CreateAnswers /\ \/ OutOfSet(CreatedModel[response'.op], request'.body)
                       \/ Lacks(CreatedModel[response'.op], request'.body))
       => Refused(response') /\ UNCHANGED tables
  /\ (AnswersById({"put"}) /\ OutOfSet(ModelName[req'[1].resource], req'[1].body))
       => Refused(req'[1].response) /\ UNCHANGED tables
  /\ (req[1].op = "updateResult" /\ OutOfSet("Result", req[1].body) /\ req'[1] # req[1])
       => /\ UNCHANGED tables
          /\ AnswersResultById => Refused(req'[1].response)

RefersToStored ==
  /\ \A x \in result : Stored(fixture, x.fixtureId)
  /\ \A f \in fixture : Stored(sport, f.sportId)

\* a DELETE of a fixture or a sport answers in this step and a stored row
\* refers to the row it names
DeleteOfReferred ==
  /\ AnswersById({"delete"})
  /\ \/ req'[1].resource = "fixture" /\ \E x \in result : x.fixtureId = req'[1].id
     \/ req'[1].resource = "sport" /\ \E f \in fixture : f.sportId = req'[1].id

\* C28: after any sequence of creates, updates and deletes every stored
\* result refers to a stored fixture and every stored fixture to a stored
\* sport; a DELETE of a fixture that has a result, or of a sport that has
\* fixtures, is answered 500 with the error envelope and removes nothing.
C28_ReferencesKept ==
  /\ []RefersToStored
  /\ [][DeleteOfReferred => Refused(req'[1].response) /\ UNCHANGED tables]_vars

\* the delete of fixture F1 has been answered 500 while result R1 refers to
\* it, and both are stored as before
C28_Witness ==
  /\ req[1].pc = "served" /\ req[1].op = "delete" /\ req[1].resource = "fixture"
  /\ req[1].id = JsStr(S_F1) /\ Refused(req[1].response)
  /\ SeededResult \in result /\ SeededFixture(1) \in fixture

\* result R1 and then fixture F1 were deleted, and a create of a result for
\* F1 has been answered 500 since
C28_WitnessNoOrphan ==
  /\ ~Stored(fixture, JsStr(S_F1)) /\ ~Stored(result, JsStr(S_R1))
  /\ req[2].pc = "served" /\ req[2].op = "createResult"
  /\ req[2].body.fixtureId = JsStr(S_F1)
  /\ req[2].response.status = 500
  /\ result = {}

\* the delete of sport S1 has been answered 500 while fixture F1 refers to it
C28_WitnessSport ==
  /\ req[1].pc = "served" /\ req[1].op = "delete" /\ req[1].resource = "sport"
  /\ req[1].id = JsStr(S_S1) /\ Refused(req[1].response)
  /\ \E f \in fixture : f.sportId = JsStr(S_S1)

(* ------------------------ claims on image uploads ------------------------ *)
\* C29: a result create or update whose image upload fails writes nothing,
\* publishes no event and is answered 500 with the error envelope; and a
\* request that carries an image starts its storage write only when its
\* upload has returned: while the upload is awaited the request has written
\* and published nothing.
C29_UploadBeforeWrite ==
  /\ [](\A r \in Slots :
          /\ (req[r].pc = "served" /\ req[r].file = "uploadFails") =>
               /\ WritesOf(req[r].n) = {}
               /\ EventsBy(req[r].n) = {}
               /\ Refused(req[r].response)
          /\ req[r].pc = "upload" =>
               WritesOf(req[r].n) = {} /\ EventsBy(req[r].n) = {})
  /\ [][\A r \in Slots :
          /\ (req[r].pc = "upload" /\ req'[r] # req[r]) =>
               /\ UNCHANGED <<tables, commits, events>>
               /\ req'[r].pc = IF req[r].file = "uploaded" THEN "write" ELSE "served"
          /\ (req'[r].pc = "write" /\ req[r].pc # "write" /\ req'[r].file # "none") =>
               req[r].pc = "upload" /\ req[r].file = "uploaded"
                 /\ req'[r].imageUrl = JsStr(<<"i">>)]_vars

\* an update of result R1 whose upload failed has been answered 500; R1 is
\* stored as its create wrote it and the only event is the one of the create
C29_Witness ==
  \E r \in Slots :
    /\ req[r].pc = "served" /\ req[r].op = "updateResult"
    /\ req[r].file = "uploadFails" /\ req[r].n = 2
    /\ Refused(req[r].response)
    /\ Len(commits) = 1 /\ commits[1].op = "createResult"
    /\ \E x \in result : x.id = JsStr(S_R1) /\ x.homeScore = JsNum(1)
    /\ Len(events) = 1 /\ connected # {}

\* a create whose upload failed has been answered 500 and no result is stored
C29_WitnessCreate ==
  \E r \in Slots :
    /\ req[r].pc = "served" /\ req[r].op = "createResult"
    /\ req[r].file = "uploadFails"
    /\ Refused(req[r].response)
    /\ result = {} /\ events = <<>>

(* --------------------------- claims on passwords ------------------------- *)
\* the stored password hashes, and the password of the request being served
Secrets ==
  {x.password : x \in user}
    \cup (IF "password" \in DOMAIN request.body THEN {request.body.password} ELSE {})

\* a user as a response carries it: no password column, and no column whose
\* value is a password or a hash
UserClean(x) ==
  /\ "password" \notin DOMAIN x
  /\ \A k \in DOMAIN x \ {"university"} : x[k] \notin Secrets \ {JsUndefined}

\* a university as a response carries it, with the users it embeds
UniversityClean(u) ==
  /\ "password" \notin DOMAIN u
  /\ \A x \in u.users : UserClean(x)

\* a response body of the user and university endpoints is free of passwords
BodyClean(resource, status, body) ==
  IF status \notin {200, 201} THEN DOMAIN body \subseteq {"error"}
  ELSE IF resource = "user" THEN UserClean(body) ELSE UniversityClean(body)

\* the same of the rows of a list response
ListClean(resource, status, body) ==
  IF status # 200 THEN DOMAIN body \subseteq {"error"}
  ELSE \A i \in 1..Len(body.data) :
         IF resource = "user" THEN UserClean(body.data[i])
         ELSE UniversityClean(body.data[i])

\* every response that is being sent is free of passwords
ResponsesClean ==
  /\ (pc = "served" /\ response.op = "createUser") =>
       BodyClean("user", response.status, response.body)
  /\ (pc = "served" /\ response.op = "listUsers") =>
       ListClean("user", response.status, response.body)
  /\ (pc = "served" /\ response.op = "listUniversities") =>
       ListClean("university", response.status, response.body)
  /\ (req[1].pc = "served" /\ req[1].resource \in {"user", "university"}
        /\ req[1].op \in {"get", "put"}) =>
       BodyClean(req[1].resource, req[1].response.status, req[1].response.body)

\* C30: no response of the user endpoints (list, create, fetch, update) and
\* no response of the university endpoints, which embed users, contains a
\* password or its hash, and a user update never changes the stored password.
C30_PasswordNeverSent ==
  /\ []ResponsesClean
  /\ [][\A x \in user : \A y \in user' : y.id = x.id => y.password = x.password]_vars

\* a user of university U1 has been created with password "p": the row holds
\* the hash, the 201 response holds neither; the earlier user was updated
C30_Witness ==
  /\ pc = "served" /\ response.op = "createUser" /\ response.status = 201
  /\ request.body.password = JsStr(<<"p">>)
  /\ \E x \in user : /\ x.id = response.body.id
                     /\ x.password = JsStr(<<"#", "p">>)
                     /\ x.universityId = JsStr(S_U1)
  /\ \E x \in user : x.id = JsStr(S_X1) /\ x.name = JsStr(<<"b">>)
                       /\ x.password = JsStr(<<"#", "p">>)

\* a fetch of university U1 has answered 200 with two users embedded
C30_WitnessUniversity ==
  /\ req[1].pc = "served" /\ req[1].op = "get" /\ req[1].resource = "university"
  /\ req[1].response.status = 200
  /\ Cardinality(req[1].response.body.users) = 2

====
